---- MODULE Spec2Model ----
(***************************************************************************)
(* Consensus core of the full node: Blockchain.receive_block and the       *)
(* header index, fork choice, LCA tracking, mainline rewrite and UTXO      *)
(* coupling it drives (src/src/blockchain.py).                             *)
(***************************************************************************)
EXTENDS Integers, Sequences, FiniteSets, TLC

(***************************************************************************)
(* Bounds of the model.                                                    *)
(***************************************************************************)
\* number of header hashes that exist (genesis included)
MaxBlocks == 6
\* number of header hashes that exist when blocks only extend tips
MaxChain == 11
\* seconds a slow block takes
SlowDelta == 6
\* number of accepted blocks that may carry transactions
MaxTxBlocks == 2
\* number of header hashes that exist when blocks carry any timestamp
MaxTimed == 8
\* the bundles submitted to the mempool, and the blocks of the chain it is built on
MaxBundles == 3
MaxPoolChain == 3
\* number of header hashes that exist when the chain grows under the mempool
MaxPoolBlocks == 4
\* the bundles submitted to the mempool of a chain that grows
MaxPaid == 2

(***************************************************************************)
(* Consensus parameters (self.constants, overridable per create()).        *)
(***************************************************************************)
\* the value of NUMBER_OF_HEADS unless create() is given another
NUMBER_OF_HEADS == 3
DIFFICULTY_STARTING == 5
DIFFICULTY_EPOCH == 4
DIFFICULTY_DELAY == 2
DIFFICULTY_WARP_FACTOR == 2
DIFFICULTY_FACTOR == 3
BLOCK_TIME_TARGET == 2
MIN_BLOCK_TIME == 1
VDF_IPS_STARTING == 2
IPS_FACTOR == 3
NUMBER_OF_TIMESTAMPS == 2
COINBASE_FREEZE_PERIOD == 1
MAX_COIN_AMOUNT == 16
\* calculate_block_reward(height), the same at every height of the model
BlockReward == 8
\* timestamp of GENESIS_BLOCK
GenesisTimestamp == 3

NoHash == 0
GenesisHash == 1
Hashes == 1 .. MaxBlocks
\* a prev_header_hash that no block of the chain has
UnknownHash == MaxBlocks + MaxChain + 1

(***************************************************************************)
(* Python helpers.                                                         *)
(***************************************************************************)
\* a // b of Python's ints (floor division), b # 0
FloorDiv(a, b) ==
    LET q == IF (a >= 0) = (b >= 0)
             THEN (IF a >= 0 THEN a ELSE -a) \div (IF b >= 0 THEN b ELSE -b)
             ELSE -(((IF a >= 0 THEN a ELSE -a) + (IF b >= 0 THEN b ELSE -b) - 1)
                     \div (IF b >= 0 THEN b ELSE -b))
    IN q

Min2(a, b) == IF a <= b THEN a ELSE b
Max2(a, b) == IF a >= b THEN a ELSE b

SetMax(S) == CHOOSE x \in S : \A y \in S : y <= x
SetMin(S) == CHOOSE x \in S : \A y \in S : x <= y

\* d[k] = v on a dict
DictSet(d, k, v) == [x \in DOMAIN d \cup {k} |-> IF x = k THEN v ELSE d[x]]
\* del d[k]
DictDel(d, k) == [x \in DOMAIN d \ {k} |-> d[x]]
EmptyDict == [x \in {} |-> 0]

RECURSIVE SeqSum(_)
SeqSum(s) == IF s = <<>> THEN 0 ELSE Head(s) + SeqSum(Tail(s))

SeqRange(s) == {s[i] : i \in 1 .. Len(s)}

(***************************************************************************)
(* Chain state.                                                            *)
(***************************************************************************)
VARIABLES
    headers,         \* Blockchain.headers: header_hash -> SmallHeaderBlock
    height_to_hash,  \* Blockchain.height_to_hash: height -> header_hash
    tips,            \* Blockchain.tips: list of header hashes
    lca_block,       \* Blockchain.lca_block (NoHash before the first block)
    store,           \* FullNodeStore: header_hash -> FullBlock
    unspent,         \* UnspentStore, state at the LCA: coin name -> Unspent
    head_diffs,      \* UnspentStore, per-tip diff overlays: tip -> (coin name -> Unspent)
    constants,       \* Blockchain.constants: the consensus parameters create() was given
    last,            \* the receive_block call that has just returned, Idle when none has
    mempools,        \* Mempool.mempools: the Pools, in the order the dict holds them
    potential_txs,   \* Mempool.potential_txs: the parked SpendBundles, in the order the dict holds them
    allSeen,         \* Mempool.allSeen: bundle name -> bundle name
    submitted,       \* the add_spendbundle call that has just ended, NoCall when none has
    old_mempools,    \* Mempool.old_mempools: height -> the items stashed at that height
    tipped,          \* the new_tips call that has just ended, NoTips when none has
    bundled          \* the create_bundle_for_tip call that has just ended, NoBundle when none has

vars == <<headers, height_to_hash, tips, lca_block, store, unspent, head_diffs, constants, last,
          mempools, potential_txs, allSeen, submitted, old_mempools, tipped, bundled>>
chain == <<headers, height_to_hash, tips, lca_block, store, unspent, head_diffs, constants>>
mempool == <<mempools, potential_txs, allSeen, submitted, old_mempools, tipped, bundled>>

\* FullBlock.header_block.to_small()
to_small(b) ==
    [header_hash |-> b.header_hash, prev_header_hash |-> b.prev_header_hash,
     height |-> b.height, weight |-> b.weight, total_iters |-> b.total_iters,
     timestamp |-> b.timestamp, quality |-> b.quality]

(***************************************************************************)
(* Fork choice: tips.                                                      *)
(***************************************************************************)
\* a sort that puts a block before the earlier blocks of its weight
RECURSIVE SortInsertNewFirst(_, _, _)
SortInsertNewFirst(hdrs, sorted, h) ==
    IF sorted = <<>> THEN <<h>>
    ELSE IF hdrs[Head(sorted)].weight > hdrs[h].weight
         THEN <<Head(sorted)>> \o SortInsertNewFirst(hdrs, Tail(sorted), h)
         ELSE <<h>> \o sorted

\* list.sort(key=weight, reverse=True): stable, descending by weight
RECURSIVE SortInsert(_, _, _)
SortInsert(hdrs, sorted, h) ==
    IF sorted = <<>> THEN <<h>>
    ELSE IF hdrs[Head(sorted)].weight >= hdrs[h].weight
         THEN <<Head(sorted)>> \o SortInsert(hdrs, Tail(sorted), h)
         ELSE <<h>> \o sorted

RECURSIVE SortByWeightDesc(_, _)
SortByWeightDesc(hdrs, s) ==
    IF s = <<>> THEN <<>>
    ELSE SortInsert(hdrs, SortByWeightDesc(hdrs, SubSeq(s, 1, Len(s) - 1)), s[Len(s)])

\* the while loop of _reconsider_heads: sort, pop, until at most NUMBER_OF_HEADS
RECURSIVE TrimLoop(_, _, _)
TrimLoop(hdrs, t, number_of_heads) ==
    IF Len(t) > number_of_heads
    THEN LET s == SortByWeightDesc(hdrs, t)
         IN TrimLoop(hdrs, SubSeq(s, 1, Len(s) - 1), number_of_heads)
    ELSE t

\* the tips sorted, none popped
TrimTipsNoPop(hdrs, t, number_of_heads) == SortByWeightDesc(hdrs, t)

\* the tips sorted, the heaviest popped
TrimTipsPopsHeaviest(hdrs, t, number_of_heads) ==
    IF Len(t) > number_of_heads THEN Tail(SortByWeightDesc(hdrs, t)) ELSE t

TrimTips(hdrs, t, number_of_heads) == TrimLoop(hdrs, t, number_of_heads)

\* a block as heavy as the lightest tip is appended to tips as well
EntersTipsOnTie(hdrs, t, h) ==
    Len(t) = 0 \/ \E i \in 1 .. Len(t) : hdrs[h].weight >= hdrs[t[i]].weight

\* the condition under which _reconsider_heads appends the block to tips
EntersTips(hdrs, t, h) ==
    Len(t) = 0 \/ hdrs[h].weight > SetMin({hdrs[t[i]].weight : i \in 1 .. Len(t)})

(***************************************************************************)
(* LCA of the tips and the height index.                                   *)
(***************************************************************************)
\* the first tip taken for the LCA
LcaIsFirstTip(hdrs, cur) == cur[1]

\* the while loop of _reconsider_lca, counted: "MET" once all cursors hold one
\* header hash, "MISSING" when the parent to step to is no key of headers,
\* "RUNNING" when the loop still runs after `fuel` iterations
RECURSIVE CursorWalkLowest(_, _, _)
CursorWalkLowest(hdrs, cur, fuel) ==
    IF \A i \in 1 .. Len(cur) : cur[i] = cur[1] THEN "MET"
    ELSE IF fuel = 0 THEN "RUNNING"
    ELSE LET mn == SetMin({hdrs[cur[i]].height : i \in 1 .. Len(cur)})
             i == SetMin({j \in 1 .. Len(cur) : hdrs[cur[j]].height = mn})
         IN IF hdrs[cur[i]].prev_header_hash \notin DOMAIN hdrs THEN "MISSING"
            ELSE CursorWalkLowest(hdrs, [cur EXCEPT ![i] = hdrs[cur[i]].prev_header_hash],
                                  fuel - 1)

RECURSIVE CursorWalk(_, _, _)
CursorWalk(hdrs, cur, fuel) ==
    IF \A i \in 1 .. Len(cur) : cur[i] = cur[1] THEN "MET"
    ELSE IF fuel = 0 THEN "RUNNING"
    ELSE LET mx == SetMax({hdrs[cur[i]].height : i \in 1 .. Len(cur)})
             i == SetMin({j \in 1 .. Len(cur) : hdrs[cur[j]].height = mx})
         IN IF hdrs[cur[i]].prev_header_hash \notin DOMAIN hdrs THEN "MISSING"
            ELSE CursorWalk(hdrs, [cur EXCEPT ![i] = hdrs[cur[i]].prev_header_hash],
                            fuel - 1)

\* the while loop of _reconsider_lca: step the first cursor of largest height back
RECURSIVE LcaWalk(_, _)
LcaWalk(hdrs, cur) ==
    IF \A i \in 1 .. Len(cur) : cur[i] = cur[1] THEN cur[1]
    ELSE LET mx == SetMax({hdrs[cur[i]].height : i \in 1 .. Len(cur)})
             i == SetMin({j \in 1 .. Len(cur) : hdrs[cur[j]].height = mx})
         IN LcaWalk(hdrs, [cur EXCEPT ![i] = hdrs[cur[i]].prev_header_hash])

RECURSIVE HeightsWalk(_, _, _, _)
HeightsWalk(hdrs, h2h, curr_old, curr_new) ==
    IF curr_old = NoHash \/ hdrs[curr_old].height < hdrs[curr_new].height
    THEN LET h2 == DictSet(h2h, hdrs[curr_new].height, curr_new)
         IN IF hdrs[curr_new].height = 0 THEN h2
            ELSE HeightsWalk(hdrs, h2, curr_old, hdrs[curr_new].prev_header_hash)
    ELSE IF hdrs[curr_old].height > hdrs[curr_new].height
    THEN HeightsWalk(hdrs, DictDel(h2h, hdrs[curr_old].height),
                     hdrs[curr_old].prev_header_hash, curr_new)
    ELSE IF curr_new = curr_old THEN h2h
    ELSE HeightsWalk(hdrs, DictSet(h2h, hdrs[curr_new].height, curr_new),
                     hdrs[curr_old].prev_header_hash, hdrs[curr_new].prev_header_hash)

\* only the new LCA's own height is written
HeightsNewOnly(hdrs, h2h, old_lca, new_lca) == DictSet(h2h, hdrs[new_lca].height, new_lca)

\* the walk of _reconsider_heights without its deletions
RECURSIVE HeightsNoDelete(_, _, _, _)
HeightsNoDelete(hdrs, h2h, curr_old, curr_new) ==
    IF curr_old = NoHash \/ hdrs[curr_old].height < hdrs[curr_new].height
    THEN LET h2 == DictSet(h2h, hdrs[curr_new].height, curr_new)
         IN IF hdrs[curr_new].height = 0 THEN h2
            ELSE HeightsNoDelete(hdrs, h2, curr_old, hdrs[curr_new].prev_header_hash)
    ELSE IF hdrs[curr_old].height > hdrs[curr_new].height
    THEN HeightsNoDelete(hdrs, h2h, hdrs[curr_old].prev_header_hash, curr_new)
    ELSE IF curr_new = curr_old THEN h2h
    ELSE HeightsNoDelete(hdrs, DictSet(h2h, hdrs[curr_new].height, curr_new),
                         hdrs[curr_old].prev_header_hash, hdrs[curr_new].prev_header_hash)

\* Blockchain._reconsider_heights(old_lca, new_lca): the new height_to_hash
reconsider_heights(hdrs, h2h, old_lca, new_lca) == HeightsWalk(hdrs, h2h, old_lca, new_lca)

\* a fork search that goes back to the genesis block every time
find_fork_at_genesis(hdrs, h2h, old_lca) == 0

RECURSIVE ForkWalk(_, _, _)
ForkWalk(hdrs, h2h, tmp_old) ==
    IF tmp_old = GenesisHash THEN 0
    ELSE IF hdrs[tmp_old].height \in DOMAIN h2h /\ h2h[hdrs[tmp_old].height] = tmp_old
    THEN hdrs[tmp_old].height
    ELSE ForkWalk(hdrs, h2h, hdrs[tmp_old].prev_header_hash)

\* Blockchain.find_fork_for_lca(old_lca), on the rewritten height_to_hash
find_fork_for_lca(hdrs, h2h, old_lca) == ForkWalk(hdrs, h2h, old_lca)

RECURSIVE DescWalk(_, _, _)
DescWalk(hdrs, current, maybe_parent) ==
    IF current = GenesisHash THEN FALSE
    ELSE IF current = maybe_parent THEN TRUE
    ELSE LET nxt == hdrs[current].prev_header_hash
         IN IF hdrs[maybe_parent].height < hdrs[nxt].height THEN FALSE
            ELSE DescWalk(hdrs, nxt, maybe_parent)

\* Blockchain.is_descendant(child, maybe_parent)
is_descendant(hdrs, child, maybe_parent) == DescWalk(hdrs, child, maybe_parent)

(***************************************************************************)
(* Retargeting.  A result is [raised, v]: raised when the Python code      *)
(* ends in an exception (a division by zero) instead of returning v.       *)
(***************************************************************************)
Ret(v) == [raised |-> FALSE, v |-> v]
Raise == [raised |-> TRUE, v |-> 0]

IsTip(t, h) == \E i \in 1 .. Len(t) : t[i] = h

\* the manual backtrack of get_next_difficulty / get_next_ips: the header at
\* height `want` among those passed before the walk meets the mainline
RECURSIVE Backtrack(_, _, _, _)
Backtrack(hdrs, h2h, curr, want) ==
    IF hdrs[curr].height \in DOMAIN h2h /\ h2h[hdrs[curr].height] = curr THEN NoHash
    ELSE IF hdrs[curr].height = want THEN curr
    ELSE Backtrack(hdrs, h2h, hdrs[curr].prev_header_hash, want)

\* block1 / block2 / block3 of the retarget: backtracked off the mainline, else
\* read from height_to_hash (NoHash when the height is -1)
SampleBlock(hdrs, h2h, t, block, top, want) ==
    LET walked == IF ~IsTip(t, block) \/ top \notin DOMAIN h2h
                  THEN Backtrack(hdrs, h2h, block, want) ELSE NoHash
    IN IF walked # NoHash THEN walked
       ELSE IF want >= 0 THEN h2h[want] ELSE NoHash

\* a clamp with no upper limit
ClampBelowOnly(new_difficulty, Tc) ==
    Max2(1, Max2(new_difficulty, FloorDiv(Tc, DIFFICULTY_FACTOR)))

\* the clamp at the end of get_next_difficulty
ClampDifficulty(new_difficulty, Tc) ==
    IF new_difficulty >= Tc
    THEN Min2(new_difficulty, DIFFICULTY_FACTOR * Tc)
    ELSE Max2(1, Max2(new_difficulty, FloorDiv(Tc, DIFFICULTY_FACTOR)))

\* Blockchain.get_next_difficulty(header_hash)
RECURSIVE get_next_difficulty(_, _, _, _)
get_next_difficulty(hdrs, h2h, t, header_hash) ==
    LET block == hdrs[header_hash]
        next_height == block.height + 1
    IN IF next_height < DIFFICULTY_EPOCH THEN Ret(DIFFICULTY_STARTING)
       ELSE IF next_height % DIFFICULTY_EPOCH # DIFFICULTY_DELAY
       THEN Ret(block.weight - hdrs[block.prev_header_hash].weight)
       ELSE
        LET height1 == next_height - DIFFICULTY_EPOCH - DIFFICULTY_DELAY - 1
            height2 == next_height - DIFFICULTY_EPOCH - 1
            height3 == next_height - DIFFICULTY_DELAY - 1
            block1 == SampleBlock(hdrs, h2h, t, header_hash, height3, height1)
            block2 == SampleBlock(hdrs, h2h, t, header_hash, height3, height2)
            block3 == SampleBlock(hdrs, h2h, t, header_hash, height3, height3)
            Tc == get_next_difficulty(hdrs, h2h, t, block.prev_header_hash)
            Tp == get_next_difficulty(hdrs, h2h, t, hdrs[block2].prev_header_hash)
            timestamp1 == IF block1 # NoHash THEN hdrs[block1].timestamp
                          ELSE hdrs[h2h[0]].timestamp - BLOCK_TIME_TARGET
            timestamp2 == hdrs[block2].timestamp
            timestamp3 == hdrs[block3].timestamp
            term1 == DIFFICULTY_DELAY * Tp.v * (timestamp3 - timestamp2) * BLOCK_TIME_TARGET
            term2 == (DIFFICULTY_WARP_FACTOR - 1) * (DIFFICULTY_EPOCH - DIFFICULTY_DELAY)
                     * Tc.v * (timestamp2 - timestamp1) * BLOCK_TIME_TARGET
            den == DIFFICULTY_WARP_FACTOR * (timestamp3 - timestamp2) * (timestamp2 - timestamp1)
        IN IF Tc.raised \/ Tp.raised \/ den = 0 THEN Raise
           ELSE Ret(ClampDifficulty(FloorDiv(term1 + term2, den), Tc.v))

\* consensus.pot_iterations.calculate_iterations_quality
calculate_iterations_quality(quality, difficulty, ips) ==
    MIN_BLOCK_TIME * ips + difficulty * quality

\* consensus.pot_iterations.calculate_ips_from_iterations
calculate_ips_from_iterations(quality, difficulty, iterations) ==
    FloorDiv(iterations - difficulty * quality, MIN_BLOCK_TIME)

\* the clamp at the end of get_next_ips
ClampIps(new_ips, prev_ips) ==
    IF new_ips >= prev_ips
    THEN Min2(new_ips, IPS_FACTOR * new_ips)
    ELSE Max2(1, Max2(new_ips, FloorDiv(prev_ips, IPS_FACTOR)))

\* Blockchain.get_next_ips(header_block)
get_next_ips(hdrs, h2h, t, header_hash) ==
    LET block == hdrs[header_hash]
        next_height == block.height + 1
    IN IF next_height < DIFFICULTY_EPOCH THEN Ret(VDF_IPS_STARTING)
       ELSE
        LET prev_block == hdrs[block.prev_header_hash]
            difficulty == get_next_difficulty(hdrs, h2h, t, prev_block.header_hash)
            iterations == block.total_iters - prev_block.total_iters
            prev_ips == calculate_ips_from_iterations(block.quality, difficulty.v, iterations)
            height1 == next_height - DIFFICULTY_EPOCH - DIFFICULTY_DELAY - 1
            height2 == next_height - DIFFICULTY_DELAY - 1
            block1 == SampleBlock(hdrs, h2h, t, header_hash, height2, height1)
            block2 == SampleBlock(hdrs, h2h, t, header_hash, height2, height2)
            timestamp1 == IF block1 # NoHash THEN hdrs[block1].timestamp
                          ELSE hdrs[h2h[0]].timestamp - BLOCK_TIME_TARGET
            iters1 == IF block1 # NoHash THEN hdrs[block1].total_iters
                      ELSE hdrs[h2h[0]].total_iters
            timestamp2 == hdrs[block2].timestamp
            iters2 == hdrs[block2].total_iters
        IN IF difficulty.raised THEN Raise
           ELSE IF next_height % DIFFICULTY_EPOCH # DIFFICULTY_DELAY THEN Ret(prev_ips)
           ELSE IF timestamp2 = timestamp1 THEN Raise
           ELSE Ret(ClampIps(FloorDiv(iters2 - iters1, timestamp2 - timestamp1), prev_ips))

(***************************************************************************)
(* Unspent store: the committed state at the LCA and the per-tip diff      *)
(* overlays.                                                               *)
(***************************************************************************)
Unspent(coin, confirmed, spent_index, spent, coinbase) ==
    [coin |-> coin, confirmed_block_index |-> confirmed,
     spent_block_index |-> spent_index, spent |-> spent, coinbase |-> coinbase]

AdditionNames(b) == {b.additions[i].name : i \in 1 .. Len(b.additions)}
AdditionCoin(b, n) == b.additions[CHOOSE i \in 1 .. Len(b.additions) : b.additions[i].name = n]

\* the records a block creates: its transactions' additions, its coinbase and fees coin
BlockCreates(b) ==
    [n \in AdditionNames(b) \cup {b.coinbase.name, b.fees_coin.name} |->
        IF n = b.coinbase.name THEN Unspent(b.coinbase, b.height, 0, 0, 1)
        ELSE IF n = b.fees_coin.name THEN Unspent(b.fees_coin, b.height, 0, 0, 1)
        ELSE Unspent(AdditionCoin(b, n), b.height, 0, 0, 0)]

\* the records that change when block b is applied on the view `view`
BlockChanges(view, b) ==
    LET created == BlockCreates(b)
        seen == created @@ view
        spent == [n \in SeqRange(b.removals) \cap DOMAIN seen |->
                    [seen[n] EXCEPT !.spent = 1, !.spent_block_index = b.height]]
    IN spent @@ created

\* new_lca that keeps the records of the last block only
new_lca_last_only(u, b) == BlockChanges(u, b)

\* UnspentStore.new_lca(block)
new_lca(u, b) == BlockChanges(u, b) @@ u

\* UnspentStore.add_lcas(blocks)
RECURSIVE add_lcas(_, _)
add_lcas(u, blocks) ==
    IF blocks = <<>> THEN u ELSE add_lcas(new_lca(u, Head(blocks)), Tail(blocks))

\* UnspentStore.rollback_lca_to_block(height)
rollback_lca_to_block(u, height) ==
    [n \in {m \in DOMAIN u : u[m].confirmed_block_index <= height} |->
        IF u[n].spent_block_index > height
        THEN [u[n] EXCEPT !.spent = 0, !.spent_block_index = 0]
        ELSE u[n]]

\* the overlay UnspentStore.new_heads(blocks) builds for the head blocks[-1]
RECURSIVE DiffFold(_, _, _)
DiffFold(u, diffs, blocks) ==
    IF blocks = <<>> THEN diffs
    ELSE DiffFold(u, BlockChanges(diffs @@ u, Head(blocks)) @@ diffs, Tail(blocks))

new_heads(u, blocks) == DiffFold(u, EmptyDict, blocks)

\* UnspentStore.get_unspent(coin_name, header): <<>> for None
get_unspent(u, diffs, coin_name, header) ==
    IF header \in DOMAIN diffs /\ coin_name \in DOMAIN diffs[header]
    THEN <<diffs[header][coin_name]>>
    ELSE IF coin_name \in DOMAIN u THEN <<u[coin_name]>>
    ELSE <<>>

\* the walk of _from_fork_to_lca and _from_tip_to_lca_unspent from `to` back to
\* `from`: the full blocks passed, oldest first; found is FALSE when the block
\* store runs out before the walk meets `from`
RECURSIVE BlocksBetween(_, _, _)
BlocksBetween(st, from, to) ==
    IF to = from THEN [found |-> TRUE, blocks |-> <<>>]
    ELSE IF to \notin DOMAIN st THEN [found |-> FALSE, blocks |-> <<>>]
    ELSE LET rest == BlocksBetween(st, from, st[to].prev_header_hash)
         IN [found |-> rest.found, blocks |-> Append(rest.blocks, st[to])]

\* Blockchain._from_fork_to_lca(fork_point, lca)
from_fork_to_lca(st, u, fork_point, lca) ==
    LET w == BlocksBetween(st, fork_point, lca)
    IN IF w.found THEN add_lcas(u, w.blocks) ELSE u

\* Blockchain.create_diffs_for_tips(target), after nuke_diffs()
create_diffs_for_tips(st, u, t, target) ==
    [h \in {x \in SeqRange(t) : /\ BlocksBetween(st, target, x).found
                                /\ BlocksBetween(st, target, x).blocks # <<>>} |->
        new_heads(u, BlocksBetween(st, target, h).blocks)]

\* the update of the unspent store that rolls back below an unchanged LCA
LcaUnspentRollsBack(hdrs, h2h, st, u, lca_tmp, lca) ==
    IF lca_tmp = NoHash THEN new_lca(u, st[lca])
    ELSE IF lca_tmp = lca THEN rollback_lca_to_block(u, hdrs[lca].height - 1)
    ELSE IF hdrs[lca].height < hdrs[lca_tmp].height
    THEN IF is_descendant(hdrs, lca_tmp, lca)
         THEN rollback_lca_to_block(u, hdrs[lca].height)
         ELSE LET fork_h == find_fork_for_lca(hdrs, h2h, lca_tmp)
              IN from_fork_to_lca(st, rollback_lca_to_block(u, fork_h), h2h[fork_h], lca)
    ELSE IF hdrs[lca].prev_header_hash = lca_tmp
    THEN new_lca(u, st[lca])
    ELSE IF is_descendant(hdrs, lca, lca_tmp)
    THEN from_fork_to_lca(st, u, lca_tmp, lca)
    ELSE LET fork_h == find_fork_for_lca(hdrs, h2h, lca_tmp)
         IN from_fork_to_lca(st, rollback_lca_to_block(u, fork_h), h2h[fork_h], lca)

(***************************************************************************)
(* _reconsider_lca and _reconsider_heads.                                  *)
(***************************************************************************)
\* the unspent store's committed state after _reconsider_lca moved the LCA
\* from lca_tmp to lca (h2h is the rewritten height_to_hash)
LcaUnspent(hdrs, h2h, st, u, lca_tmp, lca) ==
    IF lca_tmp = NoHash THEN new_lca(u, st[lca])
    ELSE IF lca_tmp = lca THEN u
    ELSE IF hdrs[lca].height < hdrs[lca_tmp].height
    THEN IF is_descendant(hdrs, lca_tmp, lca)
         THEN rollback_lca_to_block(u, hdrs[lca].height)
         ELSE LET fork_h == find_fork_for_lca(hdrs, h2h, lca_tmp)
              IN from_fork_to_lca(st, rollback_lca_to_block(u, fork_h), h2h[fork_h], lca)
    ELSE IF hdrs[lca].prev_header_hash = lca_tmp
    THEN new_lca(u, st[lca])
    ELSE IF is_descendant(hdrs, lca, lca_tmp)
    THEN from_fork_to_lca(st, u, lca_tmp, lca)
    ELSE LET fork_h == find_fork_for_lca(hdrs, h2h, lca_tmp)
         IN from_fork_to_lca(st, rollback_lca_to_block(u, fork_h), h2h[fork_h], lca)

\* _reconsider_lca once the unspent store is updated: the diffs are rebuilt
LcaCommitted(st, t, lca, h2, u2) ==
    [h2h |-> h2, lca |-> lca, unspent |-> u2,
     diffs |-> create_diffs_for_tips(st, u2, t, lca)]

\* _reconsider_lca once the heights are rewritten: the unspent store is updated
LcaHeights(hdrs, st, u, t, lca_old, lca, h2) ==
    LcaCommitted(st, t, lca, h2, LcaUnspent(hdrs, h2, st, u, lca_old, lca))

\* _reconsider_lca once the new LCA is found: the heights are rewritten
LcaMoved(hdrs, h2h, st, u, t, lca_old, genesis, lca) ==
    LcaHeights(hdrs, st, u, t, lca_old, lca,
               reconsider_heights(hdrs, h2h, IF genesis THEN NoHash ELSE lca_old, lca))

\* Blockchain._reconsider_lca(genesis): [h2h, lca, unspent, diffs] afterwards
reconsider_lca(hdrs, h2h, st, u, t, lca_old, genesis) ==
    LcaMoved(hdrs, h2h, st, u, t, lca_old, genesis, LcaWalk(hdrs, t))

(***************************************************************************)
(* Transaction validation.                                                 *)
(***************************************************************************)
FeeBase == BlockReward \div 8

Count(s, x) == Cardinality({i \in 1 .. Len(s) : s[i] = x})

\* the loop over the removals with a freeze that lasts one block longer
RECURSIVE RemovalsErrLateThaw(_, _, _, _, _)
RemovalsErrLateThaw(u, diffs, b, prev_header, rems) ==
    IF rems = <<>> THEN "NONE"
    ELSE IF Head(rems) \in AdditionNames(b)
    THEN RemovalsErrLateThaw(u, diffs, b, prev_header, Tail(rems))
    ELSE IF get_unspent(u, diffs, Head(rems), prev_header) = <<>> THEN "UNKNOWN_UNSPENT"
    ELSE IF get_unspent(u, diffs, Head(rems), prev_header)[1].spent = 1 THEN "DOUBLE_SPEND"
    ELSE IF /\ get_unspent(u, diffs, Head(rems), prev_header)[1].coinbase = 1
            /\ b.height <= get_unspent(u, diffs, Head(rems), prev_header)[1].confirmed_block_index
                               + COINBASE_FREEZE_PERIOD
    THEN "COINBASE_NOT_YET_SPENDABLE"
    ELSE RemovalsErrLateThaw(u, diffs, b, prev_header, Tail(rems))

\* the loop of validate_transactions over the removals: the first error, else "NONE"
RECURSIVE RemovalsErr(_, _, _, _, _)
RemovalsErr(u, diffs, b, prev_header, rems) ==
    IF rems = <<>> THEN "NONE"
    ELSE IF Head(rems) \in AdditionNames(b)
    THEN RemovalsErr(u, diffs, b, prev_header, Tail(rems))
    ELSE LET got == get_unspent(u, diffs, Head(rems), prev_header)
         IN IF got = <<>> THEN "UNKNOWN_UNSPENT"
            ELSE IF got[1].spent = 1 THEN "DOUBLE_SPEND"
            ELSE IF got[1].coinbase = 1
                    /\ b.height < got[1].confirmed_block_index + COINBASE_FREEZE_PERIOD
            THEN "COINBASE_NOT_YET_SPENDABLE"
            ELSE RemovalsErr(u, diffs, b, prev_header, Tail(rems))

\* removal_unspents of validate_transactions, once every removal was found
RemovalUnspents(u, diffs, b, prev_header) ==
    [n \in SeqRange(b.removals) |->
        IF n \in AdditionNames(b) THEN Unspent(AdditionCoin(b, n), b.height, 0, 0, 0)
        ELSE get_unspent(u, diffs, n, prev_header)[1]]

SumAmounts(f) ==
    LET RECURSIVE S(_)
        S(D) == IF D = {} THEN 0
                ELSE LET n == CHOOSE x \in D : TRUE IN f[n].coin.amount + S(D \ {n})
    IN S(DOMAIN f)

\* Blockchain.validate_transactions(block, fee_base): an Err, or "NONE"
validate_transactions(hdrs, u, diffs, b, fee_base) ==
    IF ~b.has_tx THEN "UNKNOWN"
    ELSE IF "cost" \in b.bad THEN "BLOCK_COST_EXCEEDS_MAX"
    ELSE IF "npc_error" \in b.bad THEN "NPC_ERROR"
    ELSE IF b.prev_header_hash \notin DOMAIN hdrs THEN "EXTENDS_UNKNOWN_BLOCK"
    ELSE IF \E i \in 1 .. Len(b.additions) : b.additions[i].amount >= MAX_COIN_AMOUNT
    THEN "COIN_AMOUNT_EXCEEDS_MAXIMUM"
    ELSE IF \E i \in 1 .. Len(b.additions) : Count([j \in 1 .. Len(b.additions) |-> b.additions[j].name], b.additions[i].name) > 1
    THEN "DUPLICATE_OUTPUT"
    ELSE IF \E i \in 1 .. Len(b.removals) : Count(b.removals, b.removals[i]) > 1
    THEN "DOUBLE_SPEND"
    ELSE LET err == RemovalsErr(u, diffs, b, b.prev_header_hash, b.removals)
         IN IF err # "NONE" THEN err
            ELSE LET removed == SumAmounts(RemovalUnspents(u, diffs, b, b.prev_header_hash))
                     added == SeqSum([i \in 1 .. Len(b.additions) |-> b.additions[i].amount])
                 IN IF removed < added THEN "MINTING_COIN"
                    ELSE IF (removed - added) + fee_base # b.fees_coin.amount
                    THEN "BAD_COINBASE_REWARD"
                    ELSE IF "puzzle_hash" \in b.bad THEN "WRONG_PUZZLE_HASH"
                    ELSE IF "conditions" \in b.bad THEN "CONDITION_FAILED"
                    ELSE IF ~b.has_aggsig \/ "agg_sig" \in b.bad THEN "BAD_AGGREGATE_SIGNATURE"
                    ELSE "NONE"

(***************************************************************************)
(* Block validation.                                                       *)
(***************************************************************************)
\* the walk of validate_unfinished_block that collects the last timestamps
RECURSIVE LastTimestamps(_, _, _)
LastTimestamps(hdrs, curr, n) ==
    IF n = 0 THEN <<>>
    ELSE <<hdrs[curr].timestamp>> \o
         (IF n > 1 /\ hdrs[curr].prev_header_hash \in DOMAIN hdrs
          THEN LastTimestamps(hdrs, hdrs[curr].prev_header_hash, n - 1) ELSE <<>>)

\* Blockchain.validate_unfinished_block(block, genesis, pre_validated, pos_quality):
\* pos_quality is 0 for None; the result is the quality in use, 0 when the block fails
validate_unfinished_block(hdrs, b, genesis, pre_validated, pos_quality) ==
    IF ~pre_validated /\ b.bad \cap {"pos_hash", "body_hash", "coinbase_sig", "harvester_sig"} # {}
    THEN 0
    ELSE IF ~genesis /\ b.prev_header_hash \notin DOMAIN hdrs THEN 0
    ELSE IF ~genesis
            /\ LET ts == LastTimestamps(hdrs, b.prev_header_hash, NUMBER_OF_TIMESTAMPS)
               IN b.timestamp < FloorDiv(SeqSum(ts), Len(ts)) \/ "future_time" \in b.bad
    THEN 0
    ELSE IF "pos_challenge" \in b.bad THEN 0
    ELSE LET quality == IF pos_quality = 0 THEN b.quality ELSE pos_quality
         IN IF quality = 0 THEN 0
            ELSE IF ~genesis /\ b.height # hdrs[b.prev_header_hash].height + 1 THEN 0
            ELSE IF genesis /\ b.height # 0 THEN 0
            ELSE quality

\* a weight check that lets a heavier block pass
WeightAtLeast(b, prev_block, difficulty) == b.weight >= prev_block.weight + difficulty

\* the weight of the block is not compared with the difficulty
WeightUnchecked(b, prev_block, difficulty) == TRUE

\* the weight check of validate_block
WeightOk(b, prev_block, difficulty) == b.weight = prev_block.weight + difficulty

\* the checks of validate_block once the quality, the difficulty and the ips of
\* the block are computed
BlockChecks(hdrs, u, diffs, b, genesis, pre_validated, quality, difficulty, ips) ==
    LET number_of_iters == calculate_iterations_quality(quality, difficulty.v, ips.v)
        prev_block == hdrs[b.prev_header_hash]
    IN IF quality = 0 THEN "FALSE"
       ELSE IF difficulty.raised \/ ips.raised THEN "RAISED"
       ELSE IF ~pre_validated /\ "challenge_pos_hash" \in b.bad THEN "FALSE"
       ELSE IF number_of_iters # b.pot_iters THEN "FALSE"
       ELSE IF ~pre_validated /\ "pot_invalid" \in b.bad THEN "FALSE"
       ELSE IF genesis
       THEN IF b.weight # difficulty.v THEN "FALSE"
            ELSE IF b.total_iters # number_of_iters THEN "FALSE"
            ELSE "TRUE"
       ELSE IF "pot_challenge" \in b.bad THEN "FALSE"
       ELSE IF ~WeightOk(b, prev_block, difficulty.v) THEN "FALSE"
       ELSE IF b.total_iters # prev_block.total_iters + number_of_iters THEN "FALSE"
       ELSE IF (BlockReward \div 8) * 7 # b.coinbase.amount THEN "FALSE"
       ELSE IF ~b.has_aggsig
       THEN IF b.has_tx THEN "FALSE"
            ELSE IF FeeBase # b.fees_coin.amount THEN "FALSE" ELSE "TRUE"
       ELSE IF validate_transactions(hdrs, u, diffs, b, FeeBase) # "NONE" THEN "FALSE"
       ELSE "TRUE"

\* Blockchain.validate_block(block, prev_full_block, genesis, pre_validated, pos_quality):
\* "TRUE", "FALSE", or "RAISED" when it ends in an exception
validate_block(hdrs, h2h, t, u, diffs, b, genesis, pre_validated, pos_quality) ==
    BlockChecks(hdrs, u, diffs, b, genesis, pre_validated,
                validate_unfinished_block(hdrs, b, genesis, pre_validated, pos_quality),
                IF genesis THEN Ret(DIFFICULTY_STARTING)
                ELSE get_next_difficulty(hdrs, h2h, t, b.prev_header_hash),
                IF genesis THEN Ret(VDF_IPS_STARTING)
                ELSE get_next_ips(hdrs, h2h, t, b.prev_header_hash))

\* Blockchain.pre_validate_block_multi(data): [ok, quality], quality 0 for None
pre_validate_block_multi(b) ==
    IF "challenge_pos_hash" \in b.bad THEN [ok |-> FALSE, quality |-> 0]
    ELSE IF "pot_invalid" \in b.bad THEN [ok |-> FALSE, quality |-> 0]
    ELSE IF "harvester_sig" \in b.bad THEN [ok |-> FALSE, quality |-> 0]
    ELSE IF b.quality = 0 THEN [ok |-> FALSE, quality |-> 0]
    ELSE [ok |-> TRUE, quality |-> b.quality]

(***************************************************************************)
(* receive_block.                                                          *)
(***************************************************************************)
\* the chain state once _reconsider_lca has run on the tips t
HeadsReconsidered(S, t, r) ==
    [S EXCEPT !.tips = t, !.height_to_hash = r.h2h, !.lca_block = r.lca,
              !.unspent = r.unspent, !.head_diffs = r.diffs,
              !.result = "ADDED_TO_HEAD"]

\* _reconsider_heads once the tips are trimmed to t: _reconsider_lca runs
HeadsTrimmed(S, genesis, t) ==
    HeadsReconsidered(S, t,
        reconsider_lca(S.headers, S.height_to_hash, S.store, S.unspent, t,
                       S.lca_block, genesis))

\* Blockchain._reconsider_heads(block, genesis) on the chain state S with the
\* header and the full block already inserted
reconsider_heads(S, h, genesis) ==
    IF EntersTips(S.headers, S.tips, h)
    THEN HeadsTrimmed(S, genesis,
                      TrimTips(S.headers, Append(S.tips, h), S.constants.NUMBER_OF_HEADS))
    ELSE [S EXCEPT !.result = "ADDED_AS_ORPHAN"]

\* receive_block once validate_block has answered v
Validated(S, b, genesis, v) ==
    IF v = "RAISED" THEN [S EXCEPT !.result = "RAISED"]
    ELSE IF v = "FALSE" THEN [S EXCEPT !.result = "INVALID_BLOCK"]
    ELSE reconsider_heads(
            [S EXCEPT !.headers = DictSet(S.headers, b.header_hash, to_small(b)),
                      !.store = DictSet(S.store, b.header_hash, b)],
            b.header_hash, genesis)

\* receive_block storing the block before it validates it
receive_block_stores_first(S, b, pre_validated, pos_quality) ==
    LET genesis == b.height = 0 /\ S.tips = <<>>
        T == [S EXCEPT !.headers = DictSet(S.headers, b.header_hash, to_small(b)),
                       !.store = DictSet(S.store, b.header_hash, b)]
    IN IF b.header_hash \in DOMAIN S.headers
       THEN [S EXCEPT !.result = "ALREADY_HAVE_BLOCK"]
       ELSE IF b.prev_header_hash \notin DOMAIN S.headers /\ ~genesis
       THEN [S EXCEPT !.result = "DISCONNECTED_BLOCK"]
       ELSE LET v == validate_block(S.headers, S.height_to_hash, S.tips, S.unspent,
                                    S.head_diffs, b, genesis, pre_validated, pos_quality)
            IN IF v = "RAISED" THEN [S EXCEPT !.result = "RAISED"]
               ELSE IF v = "FALSE" THEN [T EXCEPT !.result = "INVALID_BLOCK"]
               ELSE reconsider_heads(T, b.header_hash, genesis)

\* receive_block looking for the parent before it looks for the block
receive_block_parent_first(S, b, pre_validated, pos_quality) ==
    LET genesis == b.height = 0 /\ S.tips = <<>>
    IN IF b.prev_header_hash \notin DOMAIN S.headers /\ ~genesis
       THEN [S EXCEPT !.result = "DISCONNECTED_BLOCK"]
       ELSE IF b.header_hash \in DOMAIN S.headers
       THEN [S EXCEPT !.result = "ALREADY_HAVE_BLOCK"]
       ELSE LET v == validate_block(S.headers, S.height_to_hash, S.tips, S.unspent,
                                    S.head_diffs, b, genesis, pre_validated, pos_quality)
            IN IF v = "RAISED" THEN [S EXCEPT !.result = "RAISED"]
               ELSE IF v = "FALSE" THEN [S EXCEPT !.result = "INVALID_BLOCK"]
               ELSE reconsider_heads(
                        [S EXCEPT !.headers = DictSet(S.headers, b.header_hash, to_small(b)),
                                  !.store = DictSet(S.store, b.header_hash, b)],
                        b.header_hash, genesis)

\* Blockchain.receive_block(block, prev_block, pre_validated, pos_quality) on the
\* chain state S; prev_block is the header block of block's parent
receive_block(S, b, pre_validated, pos_quality) ==
    LET genesis == b.height = 0 /\ S.tips = <<>>
    IN IF b.header_hash \in DOMAIN S.headers
       THEN [S EXCEPT !.result = "ALREADY_HAVE_BLOCK"]
       ELSE IF b.prev_header_hash \notin DOMAIN S.headers /\ ~genesis
       THEN [S EXCEPT !.result = "DISCONNECTED_BLOCK"]
       ELSE Validated(S, b, genesis,
                      validate_block(S.headers, S.height_to_hash, S.tips, S.unspent,
                                     S.head_diffs, b, genesis, pre_validated, pos_quality))

(***************************************************************************)
(* Blocks.                                                                 *)
(***************************************************************************)
Coin(name, amount) == [name |-> name, amount |-> amount]
CoinbaseAmount == (BlockReward \div 8) * 7

\* consensus constants["GENESIS_BLOCK"]
GenesisBlock ==
    [header_hash |-> GenesisHash, prev_header_hash |-> NoHash, height |-> 0,
     timestamp |-> GenesisTimestamp, quality |-> 1,
     weight |-> DIFFICULTY_STARTING,
     pot_iters |-> calculate_iterations_quality(1, DIFFICULTY_STARTING, VDF_IPS_STARTING),
     total_iters |-> calculate_iterations_quality(1, DIFFICULTY_STARTING, VDF_IPS_STARTING),
     coinbase |-> Coin(<<"cb", GenesisHash>>, CoinbaseAmount),
     fees_coin |-> Coin(<<"fee", GenesisHash>>, FeeBase),
     has_aggsig |-> FALSE, has_tx |-> FALSE, removals |-> <<>>, additions |-> <<>>,
     bad |-> {}]

\* the state of Blockchain.create() before it receives the genesis block
EmptyChain(number_of_heads) ==
    [headers |-> EmptyDict, height_to_hash |-> EmptyDict, tips |-> <<>>,
     lca_block |-> NoHash, store |-> EmptyDict, unspent |-> EmptyDict,
     head_diffs |-> EmptyDict, constants |-> [NUMBER_OF_HEADS |-> number_of_heads],
     result |-> "NONE"]

Current ==
    [headers |-> headers, height_to_hash |-> height_to_hash, tips |-> tips,
     lca_block |-> lca_block, store |-> store, unspent |-> unspent,
     head_diffs |-> head_diffs, constants |-> constants, result |-> last.result]

\* the block of hash h on parent p for the difficulty and the ips given
Farmed(h, p, dt, q, difficulty, ips) ==
    LET iters == calculate_iterations_quality(q, difficulty.v, ips.v)
    IN [header_hash |-> h, prev_header_hash |-> p, height |-> headers[p].height + 1,
        timestamp |-> headers[p].timestamp + dt, quality |-> q,
        weight |-> headers[p].weight + difficulty.v,
        pot_iters |-> iters, total_iters |-> headers[p].total_iters + iters,
        coinbase |-> Coin(<<"cb", h>>, CoinbaseAmount),
        fees_coin |-> Coin(<<"fee", h>>, FeeBase),
        has_aggsig |-> FALSE, has_tx |-> FALSE, removals |-> <<>>, additions |-> <<>>,
        bad |-> {}]

\* a block built on parent p the way a farmer builds it: every field as the
\* consensus rules want it, no transactions
HonestBlock(h, p, dt, q) ==
    Farmed(h, p, dt, q, get_next_difficulty(headers, height_to_hash, tips, p),
           get_next_ips(headers, height_to_hash, tips, p))

\* the honest block b with transactions: removals rems, additions adds, fees_coin
\* of amount fee
TxBlock(b, rems, adds, fee) ==
    [b EXCEPT !.has_aggsig = TRUE, !.has_tx = TRUE,
        !.removals = rems, !.additions = adds,
        !.fees_coin = Coin(<<"fee", b.header_hash>>, fee)]

(***************************************************************************)
(* The blocks the node may be handed.                                      *)
(***************************************************************************)
\* seconds between a block's timestamp and its parent's
TimeDeltas == {1}

Unused == Hashes \ DOMAIN headers
\* a new block's hash: below or above the unused ones
FreshHashes == IF Unused = {} THEN {} ELSE {SetMin(Unused)}
LowFresh == IF Unused = {} THEN {} ELSE {SetMin(Unused)}

UnknownCoin == <<"unknown", 0>>

\* the coins a new block's transactions may name
SpendTargets ==
    {<<"cb", x>> : x \in DOMAIN store}
        \cup {<<"tx", x>> : x \in {y \in DOMAIN store : store[y].additions # <<>>}}
        \cup {UnknownCoin}

CoinAmount(c) ==
    IF c[1] = "tx" THEN store[c[2]].additions[1].amount ELSE CoinbaseAmount

Defects ==
    {"pos_hash", "body_hash", "coinbase_sig", "harvester_sig", "future_time",
     "pos_challenge", "challenge_pos_hash", "pot_invalid", "pot_challenge",
     "no_quality", "height", "height_zero", "weight", "total_iters", "pot_iters",
     "coinbase_amount", "fees_amount", "old_time"}

\* the honest block b with the field d names wrong
WithDefect(b, h, d) ==
    CASE d = "no_quality" -> [b EXCEPT !.quality = 0]
      [] d = "height" -> [b EXCEPT !.height = @ + 1]
      [] d = "height_zero" -> [b EXCEPT !.height = 0]
      [] d = "weight" -> [b EXCEPT !.weight = @ + 1]
      [] d = "total_iters" -> [b EXCEPT !.total_iters = @ + 1]
      [] d = "pot_iters" -> [b EXCEPT !.pot_iters = @ + 1]
      [] d = "coinbase_amount" -> [b EXCEPT !.coinbase = Coin(<<"cb", h>>, CoinbaseAmount + 1)]
      [] d = "fees_amount" -> [b EXCEPT !.fees_coin = Coin(<<"fee", h>>, FeeBase + 1)]
      [] d = "old_time" -> [b EXCEPT !.timestamp = @ - 3]
      [] OTHER -> [b EXCEPT !.bad = {d}]
\* an honest block with one field wrong
DefectiveBlock(h, p, d) == WithDefect(HonestBlock(h, p, 1, 1), h, d)

\* the transactions a block may carry: these, spending any coin ...
SpendShapes == {"spend", "transfer", "twice", "ephemeral"}
\* ... and these, spending the genesis block's coinbase coin
FaultShapes ==
    {"mint", "bad_reward", "too_large", "dup_output", "no_aggsig", "no_tx",
     "cost", "npc_error", "puzzle_hash", "conditions", "agg_sig"}

\* the honest block b with transactions of the shape given, which spend coin c
\* of amount a and create the coin named new
Shaped(b, new, c, a, shape) ==
    CASE shape = "spend" -> TxBlock(b, <<c>>, <<>>, FeeBase + a)
      [] shape = "transfer" -> TxBlock(b, <<c>>, <<Coin(new, a)>>, FeeBase)
      [] shape = "twice" -> TxBlock(b, <<c, c>>, <<>>, FeeBase + a + a)
      [] shape = "ephemeral" -> TxBlock(b, <<c, new>>, <<Coin(new, a)>>, FeeBase + a)
      [] shape = "mint" -> TxBlock(b, <<c>>, <<Coin(new, a + 1)>>, FeeBase)
      [] shape = "bad_reward" -> TxBlock(b, <<c>>, <<>>, FeeBase)
      [] shape = "too_large" -> TxBlock(b, <<c>>, <<Coin(new, MAX_COIN_AMOUNT)>>, FeeBase)
      [] shape = "dup_output" ->
             TxBlock(b, <<c>>, <<Coin(new, 1), Coin(new, 1)>>, FeeBase + a - 2)
      [] shape = "no_aggsig" ->
             [TxBlock(b, <<c>>, <<>>, FeeBase + a) EXCEPT !.has_aggsig = FALSE]
      [] shape = "no_tx" -> [TxBlock(b, <<c>>, <<>>, FeeBase + a) EXCEPT !.has_tx = FALSE]
      [] OTHER -> [TxBlock(b, <<c>>, <<>>, FeeBase + a) EXCEPT !.bad = {shape}]

\* a block whose transactions spend coin c
SpendingBlock(h, p, c, shape) ==
    Shaped(HonestBlock(h, p, 1, 1), <<"tx", h>>, c, CoinAmount(c), shape)

TxCount == Cardinality({x \in DOMAIN store : store[x].has_tx})

(***************************************************************************)
(* What a call was given, for stating what it must return.                 *)
(***************************************************************************)
\* the blocks from h back to the genesis block, read from the block store
RECURSIVE AncestorsOrSelf(_, _)
AncestorsOrSelf(st, h) ==
    IF h \notin DOMAIN st THEN {} ELSE {h} \cup AncestorsOrSelf(st, st[h].prev_header_hash)

\* some coin the block spends was spent by its parent or an ancestor of it
RespendsAncestor(st, b) ==
    \E x \in AncestorsOrSelf(st, b.prev_header_hash) :
        SeqRange(b.removals) \cap SeqRange(st[x].removals) # {}

Creates(b) == AdditionNames(b) \cup {b.coinbase.name, b.fees_coin.name}

\* some coin the block spends is created by no block the node holds, nor by itself
SpendsUnknown(st, b) ==
    \E c \in SeqRange(b.removals) :
        c \notin Creates(b) /\ \A x \in DOMAIN st : c \notin Creates(st[x])

SpendsTwice(b) == \E i \in 1 .. Len(b.removals) : Count(b.removals, b.removals[i]) > 1

\* the ages, at block b, of the coinbase coins that b spends and the unspent
\* store holds for the parent of b: the height of b less the confirmed index
CoinbaseAges(b) ==
    {b.height - get_unspent(unspent, head_diffs, c, b.prev_header_hash)[1].confirmed_block_index :
        c \in {x \in SeqRange(b.removals) \ AdditionNames(b) :
                  /\ get_unspent(unspent, head_diffs, x, b.prev_header_hash) # <<>>
                  /\ get_unspent(unspent, head_diffs, x, b.prev_header_hash)[1].coinbase = 1}}

\* no call is in progress and no result is waiting for the caller
Idle ==
    [result |-> "NONE", hash |-> NoHash, height |-> 0, known |-> FALSE,
     connected |-> FALSE, tx_err |-> "NONE", respends |-> FALSE, twice |-> FALSE,
     unknown |-> FALSE, frozen |-> FALSE, thawed |-> FALSE,
     old_lca |-> NoHash, old_tips |-> <<>>, old_unspent |-> EmptyDict,
     pre_validated |-> FALSE, plain |-> "NONE", pending |-> <<>>]

\* the record of a call receive_block(b) that returned result
Call(b, result) ==
    [result |-> result, hash |-> b.header_hash, height |-> b.height,
     known |-> b.header_hash \in DOMAIN headers,
     connected |-> b.prev_header_hash \in DOMAIN headers,
     tx_err |-> IF b.header_hash \notin DOMAIN headers /\ b.prev_header_hash \in DOMAIN headers
                   /\ b.has_aggsig
                THEN validate_transactions(headers, unspent, head_diffs, b, FeeBase)
                ELSE "NONE",
     respends |-> b.has_tx /\ RespendsAncestor(store, b),
     twice |-> b.has_tx /\ SpendsTwice(b),
     unknown |-> b.has_tx /\ SpendsUnknown(store, b),
     frozen |-> b.has_tx /\ \E age \in CoinbaseAges(b) : age < COINBASE_FREEZE_PERIOD,
     thawed |-> b.has_tx /\ CoinbaseAges(b) = {COINBASE_FREEZE_PERIOD},
     old_lca |-> lca_block, old_tips |-> tips, old_unspent |-> unspent,
     pre_validated |-> FALSE, plain |-> "NONE", pending |-> <<>>]

(***************************************************************************)
(* Mempool: one Pool per tip, fee-per-cost ordering, the parked bundles.   *)
(***************************************************************************)
\* consensus constants["TX_PER_SEC"], ["MEMPOOL_BLOCK_BUFFER"]
TX_PER_SEC == 1
MEMPOOL_BLOCK_BUFFER == 1
\* Mempool.__init__: self.mempool_size, self.potential_cache_size
mempool_size == TX_PER_SEC * BLOCK_TIME_TARGET * MEMPOOL_BLOCK_BUFFER
potential_cache_size == 1

\* the signature counts of the bundles submitted, and the unit the float
\* fees / cost is counted in: every cost divides it, so the quotient is exact
Costs == {1, 2}
CostUnit == 2
\* fees_per_cost = fees / cost
fees_per_cost(fees, cost) == (fees * CostUnit) \div cost

\* a SpendBundle: its name, the names of its removals, its additions, fees(),
\* get_signature_count(), what get_name_puzzle_conditions fails with, and
\* whether the aggregated signature validates
SpendBundle(name, removals, additions, fees, cost, npc_err, sig_ok) ==
    [name |-> name, removals |-> removals, additions |-> additions, fees |-> fees,
     cost |-> cost, npc_err |-> npc_err, sig_ok |-> sig_ok]

MempoolItem(spend_bundle, fee_per_cost, fee, cost) ==
    [name |-> spend_bundle.name, spend_bundle |-> spend_bundle,
     fee_per_cost |-> fee_per_cost, fee |-> fee, cost |-> cost]

\* Pool.create(head, size); header_block is kept by its header hash. The
\* record of a Pool also says which object it is (id: the header it was created
\* for), under which key a dict holds it (key), and in which order the dict
\* spends got its keys (inserted)
create(head, size) ==
    [header_block |-> head, spends |-> EmptyDict, additions |-> EmptyDict,
     removals |-> EmptyDict, min_fee |-> 0, sorted_spends |-> EmptyDict, size |-> size,
     id |-> head, key |-> head, inserted |-> <<>>]

\* the sequence s without the entries equal to x
RECURSIVE Without(_, _)
Without(s, x) ==
    IF s = <<>> THEN <<>>
    ELSE IF Head(s) = x THEN Without(Tail(s), x)
    ELSE <<Head(s)>> \o Without(Tail(s), x)

\* the dict `pools` once the object `pool` has changed: every entry that holds
\* the object shows the change
Written(pools, pool) ==
    [j \in 1 .. Len(pools) |->
        IF pools[j].id = pool.id THEN [pool EXCEPT !.key = pools[j].key] ELSE pools[j]]

\* Pool.at_full_capacity()
at_full_capacity(pool) == Cardinality(DOMAIN pool.spends) >= pool.size

\* Pool.get_min_fee_rate(): the first key of sorted_spends when the pool is full
get_min_fee_rate(pool) ==
    IF at_full_capacity(pool) THEN SetMin(DOMAIN pool.sorted_spends) ELSE 0

\* Pool.remove_spend(item) up to the statement that raises: the entries of
\* removals, additions and spends are deleted, then
\* `del self.sorted_spends[item.fee_per_cost][item.name]` reaches the MempoolItem
\* that add_to_pool stored under the key, which has no item deletion (TypeError)
remove_spend(pool, item) ==
    [pool EXCEPT
        !.removals = [n \in DOMAIN pool.removals \ SeqRange(item.spend_bundle.removals) |->
                        pool.removals[n]],
        !.additions = [n \in DOMAIN pool.additions \ AdditionNames(item.spend_bundle) |->
                        pool.additions[n]],
        !.spends = DictDel(pool.spends, item.name),
        !.inserted = Without(pool.inserted, item.name)]

\* the indexes of the pool once `item` is entered under each key of ks
Indexed(index, ks, item) == [n \in DOMAIN index \cup ks |-> IF n \in ks THEN item ELSE index[n]]

\* Pool.add_to_pool(item, additions, removals_dic): the pool it leaves, and
\* whether it raised; in a full pool `val.values()` is asked of the MempoolItem
\* peekitem returned (AttributeError) before anything is written
add_to_pool(pool, item) ==
    IF at_full_capacity(pool)
    THEN [pool |-> pool, raised |-> TRUE]
    ELSE [pool |-> [pool EXCEPT
                        !.spends = DictSet(pool.spends, item.name, item),
                        !.inserted = IF item.name \in DOMAIN pool.spends THEN pool.inserted
                                     ELSE Append(pool.inserted, item.name),
                        !.sorted_spends = DictSet(pool.sorted_spends, item.fee_per_cost, item),
                        !.additions = Indexed(pool.additions, AdditionNames(item.spend_bundle), item),
                        !.removals = Indexed(pool.removals, SeqRange(item.spend_bundle.removals), item)],
          raised |-> FALSE]

\* the loop of check_removals over the removals rems; counted are the names of
\* removals_counter, conflicts the coins found in mempool.removals so far
RECURSIVE RemovalsLoop(_, _, _, _, _, _, _)
RemovalsLoop(u, diffs, sb, pool, rems, counted, conflicts) ==
    IF rems = <<>>
    THEN [err |-> IF conflicts # <<>> THEN "MEMPOOL_CONFLICT" ELSE "NONE", conflicts |-> conflicts]
    ELSE IF Head(rems) \in counted THEN [err |-> "DOUBLE_SPEND", conflicts |-> <<>>]
    ELSE IF Head(rems) \in AdditionNames(sb)
    THEN RemovalsLoop(u, diffs, sb, pool, Tail(rems), counted \cup {Head(rems)}, conflicts)
    ELSE IF get_unspent(u, diffs, Head(rems), pool.header_block) = <<>>
    THEN [err |-> "UNKNOWN_UNSPENT", conflicts |-> <<>>]
    ELSE IF get_unspent(u, diffs, Head(rems), pool.header_block)[1].spent = 1
    THEN [err |-> "DOUBLE_SPEND", conflicts |-> <<>>]
    ELSE RemovalsLoop(u, diffs, sb, pool, Tail(rems), counted \cup {Head(rems)},
                      IF Head(rems) \in DOMAIN pool.removals
                      THEN Append(conflicts, Head(rems)) ELSE conflicts)

\* Mempool.check_removals(additions, removals, mempool): the error and the
\* conflicting coins
check_removals(u, diffs, sb, pool) == RemovalsLoop(u, diffs, sb, pool, sb.removals, {}, <<>>)

\* self.potential_txs[spend.name()] = spend on the dict ptx
Parked(ptx, sb) ==
    IF \E i \in 1 .. Len(ptx) : ptx[i].name = sb.name
    THEN [i \in 1 .. Len(ptx) |-> IF ptx[i].name = sb.name THEN sb ELSE ptx[i]]
    ELSE Append(ptx, sb)

\* Mempool.add_to_potential_tx_set(spend): once the dict is over
\* potential_cache_size, `self.potential_txs.keys()[0]` subscripts a dict view
\* (TypeError)
add_to_potential_tx_set(ptx, sb) ==
    [potential_txs |-> Parked(ptx, sb),
     raised |-> Len(Parked(ptx, sb)) > potential_cache_size]

\* add_spendbundle before its first check: the pools, the parked bundles,
\* added_count, errors, and how the call has ended
Started(pools, ptx) ==
    [mempools |-> pools, potential_txs |-> ptx, added_count |-> 0, errors |-> <<>>,
     result |-> "RUNNING", ok |-> FALSE, err |-> "NONE"]

\* errors.append(e); continue
Rejected(R, e) == [R EXCEPT !.errors = Append(R.errors, e)]

\* return False, e
ReturnedEarly(R, e) == [R EXCEPT !.result = "RETURNED", !.ok = FALSE, !.err = e]

\* await self.add_to_potential_tx_set(new_spend), then errors.append(e); continue
ParkedThenRejected(R, P, e) ==
    IF P.raised
    THEN [R EXCEPT !.potential_txs = P.potential_txs, !.result = "RAISED"]
    ELSE [Rejected(R, e) EXCEPT !.potential_txs = P.potential_txs]

\* the loop over conflicting_pool_items that calls pool.remove_spend: the first
\* call raises
Replaced(R, i, pool) == [R EXCEPT !.mempools = Written(R.mempools, pool), !.result = "RAISED"]

\* pool.add_to_pool(new_item, additions, removals_dic); added_count += 1
Added(R, i, A) ==
    IF A.raised THEN [R EXCEPT !.result = "RAISED"]
    ELSE [R EXCEPT !.mempools = Written(R.mempools, A.pool), !.added_count = R.added_count + 1]

\* add_spendbundle on the pool of index i from the signature check on; cr is
\* what check_removals returned
Admitted(R, i, sb, pool, cr) ==
    IF ~sb.sig_ok THEN ReturnedEarly(R, "BAD_AGGREGATE_SIGNATURE")
    ELSE IF cr.err = "MEMPOOL_CONFLICT"
    THEN Replaced(R, i, remove_spend(pool, pool.removals[cr.conflicts[1]]))
    ELSE Added(R, i, add_to_pool(pool, MempoolItem(sb, fees_per_cost(sb.fees, sb.cost),
                                                   sb.fees, sb.cost)))

\* add_spendbundle on the pool of index i from the return of check_removals on
Checked(R, i, sb, pool, cr) ==
    IF cr.err = "MEMPOOL_CONFLICT"
    THEN IF \E c \in SeqRange(cr.conflicts) :
                pool.removals[c].fee_per_cost >= fees_per_cost(sb.fees, sb.cost)
         THEN ParkedThenRejected(R, add_to_potential_tx_set(R.potential_txs, sb),
                                 "MEMPOOL_CONFLICT")
         ELSE Admitted(R, i, sb, pool, cr)
    ELSE IF cr.err # "NONE" THEN Rejected(R, cr.err)
    ELSE Admitted(R, i, sb, pool, cr)

\* one turn of `for pool in targets`
PoolStep(u, diffs, R, i, sb, pool) ==
    IF sb.fees < 0 THEN Rejected(R, "MINTING_COIN")
    ELSE IF at_full_capacity(pool) /\ sb.fees = 0 THEN Rejected(R, "INVALID_FEE_NO_FEE")
    ELSE IF at_full_capacity(pool)
            /\ fees_per_cost(sb.fees, sb.cost) < get_min_fee_rate(pool)
    THEN Rejected(R, "INVALID_FEE_LOW_FEE")
    ELSE Checked(R, i, sb, pool, check_removals(u, diffs, sb, pool))

\* `for pool in targets`, targets = list(self.mempools.values()), from index i
RECURSIVE TargetsLoop(_, _, _, _, _)
TargetsLoop(u, diffs, R, i, sb) ==
    IF R.result # "RUNNING" \/ i > Len(R.mempools) THEN R
    ELSE TargetsLoop(u, diffs, PoolStep(u, diffs, R, i, sb, R.mempools[i]), i + 1, sb)

\* return added_count > 0, None
Finished(R) ==
    IF R.result = "RUNNING"
    THEN [R EXCEPT !.result = "RETURNED", !.ok = R.added_count > 0, !.err = "NONE"]
    ELSE R

\* Mempool.add_spendbundle(new_spend), to_pool = None: the pools and the parked
\* bundles it leaves, and its return value (result is RAISED when it raised)
add_spendbundle(u, diffs, pools, ptx, sb) ==
    IF sb.cost = 0 THEN ReturnedEarly(Started(pools, ptx), "UNKNOWN")
    ELSE IF sb.npc_err # "NONE" THEN ReturnedEarly(Started(pools, ptx), sb.npc_err)
    ELSE IF \E i \in 1 .. Len(sb.additions) : sb.additions[i].amount >= MAX_COIN_AMOUNT
    THEN ReturnedEarly(Started(pools, ptx), "COIN_AMOUNT_EXCEEDS_MAXIMUM")
    ELSE IF \E i, j \in 1 .. Len(sb.additions) : i # j /\ sb.additions[i].name = sb.additions[j].name
    THEN ReturnedEarly(Started(pools, ptx), "DUPLICATE_OUTPUT")
    ELSE Finished(TargetsLoop(u, diffs, Started(pools, ptx), 1, sb))

\* Mempool.add_to_old_mempool_cache keeps this many entries (10 in the source)
OLD_MEMPOOL_SIZE == 2

\* `for item in items: if item.name in dic_for_height: continue;
\* dic_for_height[item.name] = item` on the dict dic, kept as the sequence of
\* its items
RECURSIVE Stashed(_, _)
Stashed(dic, items) ==
    IF items = <<>> THEN dic
    ELSE IF \E k \in 1 .. Len(dic) : dic[k].name = Head(items).name
    THEN Stashed(dic, Tail(items))
    ELSE Stashed(Append(dic, Head(items)), Tail(items))

\* Mempool.add_to_old_mempool_cache(items, header): the cache it leaves, and
\* whether it raised; the loop that trims measures dic_for_height, the dict of
\* the one height, and subscripts its keys() (TypeError)
add_to_old_mempool_cache(old, items, height) ==
    [old_mempools |->
        DictSet(old, height, Stashed(IF height \in DOMAIN old THEN old[height] ELSE <<>>, items)),
     raised |->
        Len(Stashed(IF height \in DOMAIN old THEN old[height] ELSE <<>>, items))
            > OLD_MEMPOOL_SIZE]

\* the first of the names that is a key of the index: the item under it
RECURSIVE FirstIn(_, _)
FirstIn(names, index) ==
    IF names = <<>> THEN <<>>
    ELSE IF Head(names) \in DOMAIN index THEN <<index[Head(names)]>>
    ELSE FirstIn(Tail(names), index)

\* the first entry of `items` in update_pool: the item of the pool that spends
\* the first removal of the block found in pool.removals, else the one that
\* creates the first addition of the block found in pool.additions
FirstColliding(pool, b) ==
    IF FirstIn(b.removals, pool.removals) # <<>> THEN FirstIn(b.removals, pool.removals)
    ELSE FirstIn([k \in 1 .. Len(b.additions) |-> b.additions[k].name], pool.additions)

\* Mempool.update_pool(pool, new_tip): the pool and the cache it leaves, and
\* whether it raised; pool.header_block is set first, and the first call of
\* pool.remove_spend raises
update_pool(pool, b, old) ==
    IF FirstColliding(pool, b) # <<>>
    THEN [pool |-> remove_spend([pool EXCEPT !.header_block = b.header_hash],
                                FirstColliding(pool, b)[1]),
          old_mempools |-> old, raised |-> TRUE]
    ELSE [pool |-> [pool EXCEPT !.header_block = b.header_hash],
          old_mempools |-> add_to_old_mempool_cache(old, <<>>, b.height).old_mempools,
          raised |-> add_to_old_mempool_cache(old, <<>>, b.height).raised]

\* what add_spendbundle(sb, to_pool) left of to_pool and of the parked bundles
AfterOne(R) ==
    [pool |-> R.mempools[1], potential_txs |-> R.potential_txs, raised |-> R.result = "RAISED"]

\* await self.add_spendbundle(sb, pool) for each of the bundles in turn, until
\* one raises; T is the pool, the parked bundles, and whether a call raised
RECURSIVE Readded(_, _, _, _)
Readded(u, diffs, T, bundles) ==
    IF bundles = <<>> \/ T.raised THEN T
    ELSE Readded(u, diffs,
                 AfterOne(add_spendbundle(u, diffs, <<T.pool>>, T.potential_txs, Head(bundles))),
                 Tail(bundles))

\* the bundles of the items of one pool, in the order of its dict spends,
\* without the names tried already
RECURSIVE PoolBundles(_, _, _)
PoolBundles(pool, names, tried) ==
    IF names = <<>> THEN <<>>
    ELSE IF Head(names) \in tried THEN PoolBundles(pool, Tail(names), tried)
    ELSE <<pool.spends[Head(names)].spend_bundle>>
            \o PoolBundles(pool, Tail(names), tried \cup {Head(names)})

\* initialize_pool_from_current_pools left out: no bundle is added
NoCurrentBundles(pools, tried) == <<>>

\* the bundles initialize_pool_from_current_pools adds: the items of
\* self.mempools.values(), each name once
RECURSIVE CurrentBundles(_, _)
CurrentBundles(pools, tried) ==
    IF pools = <<>> THEN <<>>
    ELSE PoolBundles(Head(pools), Head(pools).inserted, tried)
            \o CurrentBundles(Tail(pools), tried \cup DOMAIN Head(pools).spends)

\* the bundles add_old_spends_to_pool adds for the heights hs of the cache,
\* lowest height first
RECURSIVE OldBundles(_, _)
OldBundles(old, hs) ==
    IF hs = {} THEN <<>>
    ELSE [k \in 1 .. Len(old[SetMin(hs)]) |-> old[SetMin(hs)][k].spend_bundle]
            \o OldBundles(old, hs \ {SetMin(hs)})

\* new_tips before its loop: self.mempools, new_pools, the parked bundles, the
\* old-mempool cache, and how the call has ended
Tipping(pools, ptx, old) ==
    [mempools |-> pools, new_pools |-> <<>>, potential_txs |-> ptx, old_mempools |-> old,
     result |-> "RUNNING"]

\* new_pools[pool.header_block.header_hash] = pool
Keyed(pools, pool) ==
    IF \E j \in 1 .. Len(pools) : pools[j].key = pool.header_block
    THEN [j \in 1 .. Len(pools) |->
            IF pools[j].key = pool.header_block THEN [pool EXCEPT !.key = pool.header_block]
            ELSE pools[j]]
    ELSE Append(pools, [pool EXCEPT !.key = pool.header_block])

\* the pool the dict holds under key k
PoolAt(pools, k) == pools[CHOOSE j \in 1 .. Len(pools) : pools[j].key = k]

\* the tip has a pool: new_pools[tip.header_hash] = self.mempools[tip.header_hash]
Reused(N, b) ==
    [N EXCEPT !.new_pools =
        IF \E j \in 1 .. Len(N.new_pools) : N.new_pools[j].key = b.header_hash
        THEN [j \in 1 .. Len(N.new_pools) |->
                IF N.new_pools[j].key = b.header_hash THEN PoolAt(N.mempools, b.header_hash)
                ELSE N.new_pools[j]]
        ELSE Append(N.new_pools, PoolAt(N.mempools, b.header_hash))]

\* await self.add_potential_spends_to_pool(new_pool) has ended as T says, and
\* the pool enters new_pools
Entered(N, T) ==
    IF T.raised
    THEN [N EXCEPT !.mempools = Written(N.mempools, T.pool),
                   !.new_pools = Written(N.new_pools, T.pool),
                   !.potential_txs = T.potential_txs, !.result = "RAISED"]
    ELSE [N EXCEPT !.mempools = Written(N.mempools, T.pool),
                   !.new_pools = Keyed(Written(N.new_pools, T.pool), T.pool),
                   !.potential_txs = T.potential_txs]

\* the pool was filled as T says; the parked bundles are tried next
Retried(u, diffs, N, T) == Entered(N, Readded(u, diffs, T, T.potential_txs))

\* the parent of the tip has a pool, which update_pool left as U says
Updated(u, diffs, N, U) ==
    IF U.raised
    THEN [N EXCEPT !.mempools = Written(N.mempools, U.pool),
                   !.new_pools = Written(N.new_pools, U.pool),
                   !.old_mempools = U.old_mempools, !.result = "RAISED"]
    ELSE Retried(u, diffs, [N EXCEPT !.old_mempools = U.old_mempools],
                 [pool |-> U.pool, potential_txs |-> N.potential_txs, raised |-> FALSE])

\* neither the tip nor its parent has a pool: a new pool, filled from the
\* old-mempool cache above the tip's height and from the current pools
Rebuilt(u, diffs, N, b) ==
    Retried(u, diffs, N,
        Readded(u, diffs,
            [pool |-> create(b.header_hash, mempool_size),
             potential_txs |-> N.potential_txs, raised |-> FALSE],
            OldBundles(N.old_mempools, {h \in DOMAIN N.old_mempools : h > b.height})
                \o CurrentBundles(N.mempools, {})))

\* one turn of `for tip in new_tips`
TipStep(u, diffs, N, b) ==
    IF \E j \in 1 .. Len(N.mempools) : N.mempools[j].key = b.header_hash
    THEN Reused(N, b)
    ELSE IF \E j \in 1 .. Len(N.mempools) : N.mempools[j].key = b.prev_header_hash
    THEN Updated(u, diffs, N,
                 update_pool(PoolAt(N.mempools, b.prev_header_hash), b, N.old_mempools))
    ELSE Rebuilt(u, diffs, N, b)

RECURSIVE TipsLoop(_, _, _, _)
TipsLoop(u, diffs, N, blocks) ==
    IF blocks = <<>> \/ N.result # "RUNNING" THEN N
    ELSE TipsLoop(u, diffs, TipStep(u, diffs, N, Head(blocks)), Tail(blocks))

\* self.mempools = new_pools
Switched(N) ==
    IF N.result = "RUNNING"
    THEN [N EXCEPT !.mempools = N.new_pools, !.result = "RETURNED"]
    ELSE N

\* Mempool.new_tips(new_tips), new_tips being the full blocks given: the pools,
\* the parked bundles and the cache it leaves, and whether it returned or raised
new_tips(u, diffs, pools, ptx, old, blocks) ==
    Switched(TipsLoop(u, diffs, Tipping(pools, ptx, old), blocks))

\* the cost a block's bundle may have (6000 in the source)
BLOCK_COST_MAX == 3

\* no create_bundle_for_tip call has ended since the caller took the last result
NoBundle == [result |-> "NONE", tip |-> NoHash, none |-> FALSE, selected |-> <<>>]

\* Mempool.create_bundle_for_tip(header_block), header_block of hash h: None
\* when the header has no pool, else the names of the items packed; `for item
\* in dic.values` asks the first value of sorted_spends, the MempoolItem
\* add_to_pool stored, for `values` (AttributeError), so the call returns only
\* when sorted_spends is empty
create_bundle_for_tip(pools, h) ==
    IF ~\E j \in 1 .. Len(pools) : pools[j].key = h
    THEN [result |-> "RETURNED", tip |-> h, none |-> TRUE, selected |-> <<>>]
    ELSE IF DOMAIN PoolAt(pools, h).sorted_spends = {}
    THEN [result |-> "RETURNED", tip |-> h, none |-> FALSE, selected |-> <<>>]
    ELSE [result |-> "RAISED", tip |-> h, none |-> FALSE, selected |-> <<>>]

\* no new_tips call has ended since the caller took the last result
NoTips == [result |-> "NONE", tips |-> <<>>, before |-> <<>>]

\* no add_spendbundle call has ended since the caller took the last result
NoCall ==
    [result |-> "NONE", ok |-> FALSE, err |-> "NONE", errors |-> <<>>,
     bundle |-> SpendBundle(0, <<>>, <<>>, 0, 0, "NONE", TRUE),
     before |-> <<>>, parked |-> <<>>]

(***************************************************************************)
(* Specification.                                                          *)
(***************************************************************************)
\* the values of NUMBER_OF_HEADS a chain is created with
HeadCaps == {1, NUMBER_OF_HEADS}

\* Blockchain.create(): the chain that has received the genesis block
Created(number_of_heads) == receive_block(EmptyChain(number_of_heads), GenesisBlock, FALSE, 0)

\* the fields of the Blockchain are those of the chain state S
Constructed(S) ==
    /\ headers = S.headers
    /\ height_to_hash = S.height_to_hash
    /\ tips = S.tips
    /\ lca_block = S.lca_block
    /\ store = S.store
    /\ unspent = S.unspent
    /\ head_diffs = S.head_diffs
    /\ constants = S.constants
    /\ last = Idle
    /\ mempools = <<>>
    /\ potential_txs = <<>>
    /\ allSeen = EmptyDict
    /\ submitted = NoCall
    /\ old_mempools = EmptyDict
    /\ tipped = NoTips
    /\ bundled = NoBundle

Init == \E k \in HeadCaps : Constructed(Created(k))

\* receive_block(b) leaves the chain state S and its result behind
Returns(b, S) ==
    /\ headers' = S.headers
    /\ height_to_hash' = S.height_to_hash
    /\ tips' = S.tips
    /\ lca_block' = S.lca_block
    /\ store' = S.store
    /\ unspent' = S.unspent
    /\ head_diffs' = S.head_diffs
    /\ constants' = S.constants
    /\ last' = Call(b, S.result)
    /\ UNCHANGED mempool

\* one call of receive_block(b, prev_block = the parent's header block)
Receive(b) ==
    /\ last = Idle
    /\ Returns(b, receive_block(Current, b, FALSE, 0))

ReceiveKnown == \E h \in DOMAIN headers : Receive(store[h])

ReceiveDisconnected ==
    \E h \in LowFresh, ht \in {0, 1} :
        Receive([GenesisBlock EXCEPT !.header_hash = h, !.prev_header_hash = UnknownHash,
                                     !.height = ht])

ReceiveHonest ==
    \E h \in FreshHashes, p \in DOMAIN headers, dt \in TimeDeltas :
        Receive(HonestBlock(h, p, dt, 1))

ReceiveDefective ==
    \E h \in LowFresh, p \in SeqRange(tips), d \in Defects :
        Receive(DefectiveBlock(h, p, d))

ReceiveSpending ==
    /\ TxCount < MaxTxBlocks
    /\ \E h \in LowFresh, p \in DOMAIN headers, c \in SpendTargets, shape \in SpendShapes :
            Receive(SpendingBlock(h, p, c, shape))

ReceiveFaulty ==
    /\ TxCount < MaxTxBlocks
    /\ \E h \in LowFresh, p \in SeqRange(tips), shape \in FaultShapes :
            Receive(SpendingBlock(h, p, <<"cb", GenesisHash>>, shape))

\* receive_block has returned: the caller takes the result
Return ==
    /\ last # Idle
    /\ last' = Idle
    /\ UNCHANGED chain
    /\ UNCHANGED mempool

Next ==
    \/ ReceiveKnown
    \/ ReceiveDisconnected
    \/ ReceiveHonest
    \/ ReceiveDefective
    \/ ReceiveSpending
    \/ ReceiveFaulty
    \/ Return

Spec == Init /\ [][Next]_vars

(***************************************************************************)
(* A chain that grows at its tips only.                                    *)
(***************************************************************************)
\* the hash of the next block: hashes are handed out in order of arrival
NextHash == Cardinality(DOMAIN headers) + 1

\* seconds between a block's timestamp and its parent's, on a single chain
ChainDeltas == {1, SlowDelta}

\* the tip of the largest weight
HeaviestTip ==
    CHOOSE t \in SeqRange(tips) : \A u \in SeqRange(tips) : headers[u].weight <= headers[t].weight

\* the next block extends the heaviest tip
ExtendChain ==
    /\ NextHash <= MaxChain
    /\ \E dt \in ChainDeltas : Receive(HonestBlock(NextHash, HeaviestTip, dt, 1))

\* the next block extends the heaviest tip, with one field wrong
ExtendDefective ==
    /\ NextHash <= MaxChain
    /\ \E d \in Defects : Receive(DefectiveBlock(NextHash, HeaviestTip, d))

NextLinear ==
    \/ ExtendChain
    \/ ExtendDefective
    \/ Return

SpecLinear == Init /\ [][NextLinear]_vars

\* the next block extends any of the tips
ExtendTip ==
    /\ NextHash <= MaxChain
    /\ \E p \in SeqRange(tips) : Receive(HonestBlock(NextHash, p, 1, 1))

NextExtend ==
    \/ ExtendTip
    \/ Return

SpecExtend == Init /\ [][NextExtend]_vars

(***************************************************************************)
(* Blocks that went through pre-validation.                                *)
(***************************************************************************)
\* receive_block(b, pre_validated = True, pos_quality) leaves the chain state S
\* behind; P is what receive_block(b) with pre_validated = False would leave
ReturnsPreValidated(b, S, P) ==
    /\ headers' = S.headers
    /\ height_to_hash' = S.height_to_hash
    /\ tips' = S.tips
    /\ lca_block' = S.lca_block
    /\ store' = S.store
    /\ unspent' = S.unspent
    /\ head_diffs' = S.head_diffs
    /\ constants' = S.constants
    /\ last' = [Call(b, S.result) EXCEPT !.pre_validated = TRUE, !.plain = P.result]
    /\ UNCHANGED mempool

\* pre_validate_block_multi(b) returned ok with quality: the caller hands both
\* to receive_block
ReceiveAfter(b, pre) ==
    /\ last = Idle
    /\ pre.ok
    /\ ReturnsPreValidated(b, receive_block(Current, b, TRUE, pre.quality),
                           receive_block(Current, b, FALSE, 0))

ReceivePreValidated(b) == ReceiveAfter(b, pre_validate_block_multi(b))

PreValidatedHonest ==
    \E h \in FreshHashes, p \in DOMAIN headers, dt \in TimeDeltas :
        ReceivePreValidated(HonestBlock(h, p, dt, 1))

PreValidatedDefective ==
    \E h \in LowFresh, p \in SeqRange(tips), d \in Defects :
        ReceivePreValidated(DefectiveBlock(h, p, d))

NextPreValidated ==
    \/ PreValidatedHonest
    \/ PreValidatedDefective
    \/ Return

SpecPreValidated == Init /\ [][NextPreValidated]_vars

(***************************************************************************)
(* receive_block step by step: the coroutine gives the event loop back at  *)
(* each await on the block store and the unspent store, where other        *)
(* coroutines read the chain and where the call may be cancelled.          *)
(***************************************************************************)
\* the results of a call that has not returned: where it is suspended
Suspended == {"AT_ADD_BLOCK", "AT_UNSPENT_STORE"}

\* receive_block(b) up to `await self.store.add_block(block)`: the block is
\* validated and its header cached
StartReceive(b) ==
    /\ last = Idle
    /\ b.header_hash \notin DOMAIN headers
    /\ b.prev_header_hash \in DOMAIN headers
    /\ validate_block(headers, height_to_hash, tips, unspent, head_diffs, b,
                      FALSE, FALSE, 0) = "TRUE"
    /\ headers' = DictSet(headers, b.header_hash, to_small(b))
    /\ last' = [Call(b, "AT_ADD_BLOCK") EXCEPT !.pending = <<b>>]
    /\ UNCHANGED <<height_to_hash, tips, lca_block, store, unspent, head_diffs, constants>>
    /\ UNCHANGED mempool

StartReceiveHonest ==
    /\ NextHash <= MaxBlocks
    /\ \E p \in DOMAIN headers : StartReceive(HonestBlock(NextHash, p, 1, 1))

\* _reconsider_heads and _reconsider_lca up to the first await of
\* _reconsider_lca, on the tips t: the LCA and the heights are rewritten
HeadsThenSuspend(t, lca) ==
    /\ tips' = t
    /\ lca_block' = lca
    /\ height_to_hash' = reconsider_heights(headers, height_to_hash, lca_block, lca)
    /\ head_diffs' = IF lca = lca_block THEN EmptyDict ELSE head_diffs
    /\ last' = [last EXCEPT !.result = "AT_UNSPENT_STORE"]

\* from the return of store.add_block to the first await of _reconsider_lca, or
\* to the return of receive_block when the block does not enter the tips
ResumeAddBlock ==
    /\ last.result = "AT_ADD_BLOCK"
    /\ store' = DictSet(store, last.hash, last.pending[1])
    /\ IF EntersTips(headers, tips, last.hash)
       THEN HeadsThenSuspend(
                TrimTips(headers, Append(tips, last.hash), constants.NUMBER_OF_HEADS),
                LcaWalk(headers,
                    TrimTips(headers, Append(tips, last.hash), constants.NUMBER_OF_HEADS)))
       ELSE /\ last' = [last EXCEPT !.result = "ADDED_AS_ORPHAN", !.pending = <<>>]
            /\ UNCHANGED <<tips, lca_block, height_to_hash, head_diffs>>
    /\ UNCHANGED <<headers, unspent, constants>>
    /\ UNCHANGED mempool

\* the rest of _reconsider_lca: the unspent store follows the LCA and the diffs
\* of the tips are rebuilt
UnspentThenDiffs(u) ==
    /\ unspent' = u
    /\ head_diffs' = create_diffs_for_tips(store, u, tips, lca_block)

ResumeUnspentStore ==
    /\ last.result = "AT_UNSPENT_STORE"
    /\ UnspentThenDiffs(LcaUnspent(headers, height_to_hash, store, unspent,
                                    last.old_lca, lca_block))
    /\ last' = [last EXCEPT !.result = "ADDED_TO_HEAD", !.pending = <<>>]
    /\ UNCHANGED <<headers, height_to_hash, tips, lca_block, store, constants>>
    /\ UNCHANGED mempool

\* the task that runs receive_block is cancelled while it is suspended: the
\* await raises CancelledError and the call ends there
Cancel ==
    /\ last.result \in Suspended
    /\ last' = [last EXCEPT !.result = "CANCELLED", !.pending = <<>>]
    /\ UNCHANGED chain
    /\ UNCHANGED mempool

\* receive_block has returned: the caller goes on (a chain whose call was
\* cancelled is followed no further)
ReturnResumed ==
    /\ last # Idle
    /\ last.result \notin Suspended \cup {"CANCELLED"}
    /\ last' = Idle
    /\ UNCHANGED chain
    /\ UNCHANGED mempool

NextAwaits ==
    \/ StartReceiveHonest
    \/ ResumeAddBlock
    \/ ResumeUnspentStore
    \/ Cancel
    \/ ReturnResumed

SpecAwaits == Init /\ [][NextAwaits]_vars

(***************************************************************************)
(* Two calls of receive_block for one block.  A block with transactions    *)
(* gives the event loop back inside validate_transactions, at the await on *)
(* unspent_store.get_unspent, after the call has looked the block up in    *)
(* headers and before it caches the header.                                *)
(***************************************************************************)
\* receive_block(b) up to `await self.unspent_store.get_unspent(rem, prev_header)`
\* of a block that validation will accept: nothing is written yet
SuspendAtUnspent(b) ==
    /\ b.header_hash \notin DOMAIN headers
    /\ b.prev_header_hash \in DOMAIN headers
    /\ b.has_tx
    /\ b.removals # <<>>
    /\ validate_block(headers, height_to_hash, tips, unspent, head_diffs, b,
                      FALSE, FALSE, 0) = "TRUE"
    /\ last' = [Call(b, "AT_GET_UNSPENT") EXCEPT !.pending = Append(last.pending, b)]
    /\ UNCHANGED chain
    /\ UNCHANGED mempool

\* a first call for a new block that spends a coin
BeginSpending ==
    /\ last = Idle
    /\ TxCount < MaxTxBlocks
    /\ \E h \in LowFresh, p \in DOMAIN headers, c \in SpendTargets :
            SuspendAtUnspent(SpendingBlock(h, p, c, "spend"))

\* a second call for the block of the call that is suspended
BeginSame ==
    /\ last.result = "AT_GET_UNSPENT"
    /\ Len(last.pending) = 1
    /\ SuspendAtUnspent(last.pending[1])

\* the suspended call of b goes on with what get_unspent read for it and runs
\* to its return, leaving the chain state S; the calls in rest stay suspended
Resumed(b, S, rest) ==
    /\ headers' = S.headers
    /\ height_to_hash' = S.height_to_hash
    /\ tips' = S.tips
    /\ lca_block' = S.lca_block
    /\ store' = S.store
    /\ unspent' = S.unspent
    /\ head_diffs' = S.head_diffs
    /\ constants' = S.constants
    /\ last' = [Call(b, S.result) EXCEPT !.pending = rest]
    /\ UNCHANGED mempool

\* the call suspended longest resumes: validate_block answers True, the header
\* is cached, the block stored and _reconsider_heads run
ResumeAtUnspent ==
    /\ last.pending # <<>>
    /\ Resumed(Head(last.pending),
               Validated(Current, Head(last.pending), FALSE, "TRUE"),
               Tail(last.pending))

\* the caller goes on once no call is suspended
ReturnAll ==
    /\ last # Idle
    /\ last.pending = <<>>
    /\ last' = Idle
    /\ UNCHANGED chain
    /\ UNCHANGED mempool

NextSameBlock ==
    \/ ReceiveHonest
    \/ BeginSpending
    \/ BeginSame
    \/ ResumeAtUnspent
    \/ ReturnAll

SpecSameBlock == Init /\ [][NextSameBlock]_vars

(***************************************************************************)
(* A chain whose blocks carry any timestamp the rules admit.               *)
(***************************************************************************)
\* seconds between a block's timestamp and its parent's: none, a fast block, a
\* slow block
TimedDeltas == {0, 1, SlowDelta}

\* the next block extends the heaviest tip
ExtendTimed ==
    /\ NextHash <= MaxTimed
    /\ \E dt \in TimedDeltas : Receive(HonestBlock(NextHash, HeaviestTip, dt, 1))

\* the next block is a sibling of the heaviest tip
ForkTimed ==
    /\ NextHash <= MaxTimed
    /\ headers[HeaviestTip].height > 0
    /\ Receive(HonestBlock(NextHash, headers[HeaviestTip].prev_header_hash, 1, 1))

NextTimed ==
    \/ ExtendTimed
    \/ ForkTimed
    \/ Return

SpecTimed == Init /\ [][NextTimed]_vars

(***************************************************************************)
(* Bundles submitted to the mempool of a chain that has stopped growing.   *)
(***************************************************************************)
\* the coins a bundle may spend: the coinbases of the chain and an unknown one
CoinTargets == {<<"cb", h>> : h \in DOMAIN store} \cup {UnknownCoin}

\* the removals of a bundle: one coin, or both coins of the genesis block
BundleRemovals ==
    {<<c>> : c \in CoinTargets} \cup {<<<<"cb", GenesisHash>>, <<"fee", GenesisHash>>>>}

BundleFees == {0, 1, 2}

\* the name of the next bundle: names are handed out in order of arrival
NextName == Cardinality(DOMAIN allSeen) + 1

\* a well-formed bundle: it creates one coin of its own
PlainBundle(name, rems, fees, cost) ==
    SpendBundle(name, rems, <<Coin(<<"sb", name>>, 1)>>, fees, cost, "NONE", TRUE)

BundleFaults ==
    {"no_cost", "npc_fail", "huge_output", "duplicate_output", "double_removal",
     "unknown_after_known", "bad_sig", "minting", "ephemeral", "fee_coin"}

\* the bundle that spends the genesis coinbase, with one thing changed
FaultyBundle(name, fault) ==
    LET sb == PlainBundle(name, <<<<"cb", GenesisHash>>>>, 1, 1)
    IN CASE fault = "no_cost" -> [sb EXCEPT !.cost = 0]
         [] fault = "npc_fail" -> [sb EXCEPT !.npc_err = "INVALID_CONDITION"]
         [] fault = "huge_output" ->
                [sb EXCEPT !.additions = <<Coin(<<"sb", name>>, MAX_COIN_AMOUNT)>>]
         [] fault = "duplicate_output" ->
                [sb EXCEPT !.additions = <<Coin(<<"sb", name>>, 1), Coin(<<"sb", name>>, 1)>>]
         [] fault = "double_removal" ->
                [sb EXCEPT !.removals = <<<<"cb", GenesisHash>>, <<"cb", GenesisHash>>>>]
         [] fault = "unknown_after_known" ->
                [sb EXCEPT !.removals = <<<<"cb", GenesisHash>>, UnknownCoin>>]
         [] fault = "bad_sig" -> [sb EXCEPT !.sig_ok = FALSE]
         [] fault = "minting" -> [sb EXCEPT !.fees = -1]
         [] fault = "ephemeral" -> [sb EXCEPT !.removals = <<<<"sb", name>>>>]
         [] fault = "fee_coin" -> [sb EXCEPT !.removals = <<<<"fee", GenesisHash>>>>]

\* Mempool.seen(bundle_hash): allSeen is subscripted, and a dict without the
\* key raises KeyError
seen(all, bundle_hash) ==
    IF bundle_hash \notin DOMAIN all THEN "KeyError"
    ELSE IF all[bundle_hash] = NoHash THEN "False"
    ELSE "True"

\* add_spendbundle(sb) has ended as R says
Ended(sb, R) ==
    /\ mempools' = R.mempools
    /\ potential_txs' = R.potential_txs
    /\ allSeen' = DictSet(allSeen, sb.name, sb.name)
    /\ submitted' = [result |-> R.result, ok |-> R.ok, err |-> R.err, errors |-> R.errors,
                     bundle |-> sb, before |-> mempools, parked |-> potential_txs]
    /\ UNCHANGED chain
    /\ UNCHANGED <<last, old_mempools, tipped, bundled>>

\* one call of add_spendbundle(sb)
Submit(sb) ==
    /\ last = Idle
    /\ submitted = NoCall
    /\ tipped = NoTips
    /\ bundled = NoBundle
    /\ Ended(sb, add_spendbundle(unspent, head_diffs, mempools, potential_txs, sb))

SubmitPlain ==
    /\ NextName <= MaxBundles
    /\ \E rems \in BundleRemovals, fees \in BundleFees, cost \in Costs :
            Submit(PlainBundle(NextName, rems, fees, cost))

SubmitFaulty ==
    /\ NextName <= MaxBundles
    /\ \E fault \in BundleFaults : Submit(FaultyBundle(NextName, fault))

\* add_spendbundle has returned or raised: the caller goes on
Replied ==
    /\ submitted # NoCall
    /\ submitted' = NoCall
    /\ UNCHANGED chain
    /\ UNCHANGED <<last, mempools, potential_txs, allSeen, old_mempools, tipped, bundled>>

\* new_tips has returned or raised: the caller goes on
TipsTaken ==
    /\ tipped # NoTips
    /\ tipped' = NoTips
    /\ UNCHANGED chain
    /\ UNCHANGED <<last, mempools, potential_txs, allSeen, submitted, old_mempools, bundled>>

\* one call of create_bundle_for_tip(the header block of hash h)
CreateBundle(h) ==
    /\ last = Idle
    /\ submitted = NoCall
    /\ tipped = NoTips
    /\ bundled = NoBundle
    /\ bundled' = [create_bundle_for_tip(mempools, h) EXCEPT !.tip = h]
    /\ UNCHANGED chain
    /\ UNCHANGED <<last, mempools, potential_txs, allSeen, submitted, old_mempools, tipped>>

CreateBundleForHeader == \E h \in DOMAIN headers : CreateBundle(h)

\* create_bundle_for_tip has returned or raised: the caller goes on
BundleTaken ==
    /\ bundled # NoBundle
    /\ bundled' = NoBundle
    /\ UNCHANGED chain
    /\ UNCHANGED <<last, mempools, potential_txs, allSeen, submitted, old_mempools, tipped>>

\* the chain grows at its heaviest tip until the pools are created
Farm ==
    /\ mempools = <<>>
    /\ allSeen = EmptyDict
    /\ NextHash <= MaxPoolChain
    /\ Receive(HonestBlock(NextHash, HeaviestTip, 1, 1))

\* new_tips(the blocks of ts) has ended as N says
Tipped(ts, N) ==
    /\ mempools' = N.mempools
    /\ potential_txs' = N.potential_txs
    /\ old_mempools' = N.old_mempools
    /\ tipped' = [result |-> N.result, tips |-> ts, before |-> mempools]
    /\ UNCHANGED chain
    /\ UNCHANGED <<last, allSeen, submitted, bundled>>

\* the first call of new_tips, with the tips of the chain
NewTips ==
    /\ last = Idle
    /\ submitted = NoCall
    /\ tipped = NoTips
    /\ bundled = NoBundle
    /\ mempools = <<>>
    /\ Tipped(tips, new_tips(unspent, head_diffs, mempools, potential_txs, old_mempools,
                             [i \in 1 .. Len(tips) |-> store[tips[i]]]))

NextMempool ==
    \/ Farm
    \/ Return
    \/ NewTips
    \/ SubmitPlain
    \/ SubmitFaulty
    \/ Replied
    \/ TipsTaken
    \/ CreateBundleForHeader
    \/ BundleTaken

SpecMempool == Init /\ [][NextMempool]_vars

(***************************************************************************)
(* The mempool of a chain that grows: blocks are farmed from the pools and *)
(* new_tips is called with the tips of the chain.                          *)
(***************************************************************************)
\* the removals and the additions of the bundles of a pool's items, in the
\* order of its dict spends
RECURSIVE PoolRemovals(_, _)
PoolRemovals(pool, names) ==
    IF names = <<>> THEN <<>>
    ELSE pool.spends[Head(names)].spend_bundle.removals \o PoolRemovals(pool, Tail(names))

RECURSIVE PoolAdditions(_, _)
PoolAdditions(pool, names) ==
    IF names = <<>> THEN <<>>
    ELSE pool.spends[Head(names)].spend_bundle.additions \o PoolAdditions(pool, Tail(names))

\* the honest block b with the transactions given, its fees coin worth what
\* they leave over
Paying(b, rems, adds) ==
    TxBlock(b, rems, adds,
            FeeBase + SumAmounts(RemovalUnspents(unspent, head_diffs,
                                                 TxBlock(b, rems, adds, FeeBase),
                                                 b.prev_header_hash))
                    - SeqSum([i \in 1 .. Len(adds) |-> adds[i].amount]))

\* the block a farmer builds on the tip p out of every item of the pool of p
PoolBlock(h, p, pool) ==
    Paying(HonestBlock(h, p, 1, 1), PoolRemovals(pool, pool.inserted),
           PoolAdditions(pool, pool.inserted))

\* the chain gets a block without transactions, on one of its tips
FarmEmpty ==
    /\ submitted = NoCall
    /\ tipped = NoTips
    /\ NextHash <= MaxPoolBlocks
    /\ \E p \in SeqRange(tips) : Receive(HonestBlock(NextHash, p, 1, 1))

\* the chain gets a block with the transactions of the pool of its parent
FarmFromPool ==
    /\ submitted = NoCall
    /\ tipped = NoTips
    /\ NextHash <= MaxPoolBlocks
    /\ \E j \in 1 .. Len(mempools) :
            /\ mempools[j].key \in DOMAIN headers
            /\ mempools[j].inserted # <<>>
            /\ RemovalsErr(unspent, head_diffs,
                           TxBlock(HonestBlock(NextHash, mempools[j].key, 1, 1),
                                   PoolRemovals(mempools[j], mempools[j].inserted),
                                   PoolAdditions(mempools[j], mempools[j].inserted), FeeBase),
                           mempools[j].key,
                           PoolRemovals(mempools[j], mempools[j].inserted)) = "NONE"
            /\ Receive(PoolBlock(NextHash, mempools[j].key, mempools[j]))

\* new_tips is called with the tips of the chain
NewTipsOfChain ==
    /\ last = Idle
    /\ submitted = NoCall
    /\ tipped = NoTips
    /\ Tipped(tips, new_tips(unspent, head_diffs, mempools, potential_txs, old_mempools,
                             [i \in 1 .. Len(tips) |-> store[tips[i]]]))

\* the coins the bundles spend: the coinbases of the chain and the fees coin of
\* the genesis block
PaidRemovals ==
    {<<<<"cb", h>>>> : h \in DOMAIN store} \cup {<<<<"fee", GenesisHash>>>>}

PaidFees == {1, 2}

SubmitPaid ==
    /\ NextName <= MaxPaid
    /\ \E rems \in PaidRemovals, fees \in PaidFees : Submit(PlainBundle(NextName, rems, fees, 1))

NextPools ==
    \/ FarmEmpty
    \/ FarmFromPool
    \/ Return
    \/ NewTipsOfChain
    \/ SubmitPaid
    \/ Replied
    \/ TipsTaken

SpecPools == Init /\ [][NextPools]_vars

(***************************************************************************)
(* The mempool over a chain that grows at its head, with enough bundles to *)
(* fill a pool and leave one over.                                         *)
(***************************************************************************)

\* the bundles submitted in a run of SpecRebuild
MaxRebuilt == 3

\* the chain gets a block without transactions on its heaviest tip
FarmOnHead ==
    /\ submitted = NoCall
    /\ tipped = NoTips
    /\ NextHash <= MaxPoolBlocks
    /\ Receive(HonestBlock(NextHash, HeaviestTip, 1, 1))

SubmitRebuilt ==
    /\ NextName <= MaxRebuilt
    /\ \E rems \in PaidRemovals, fees \in PaidFees : Submit(PlainBundle(NextName, rems, fees, 1))

NextRebuild ==
    \/ FarmOnHead
    \/ Return
    \/ NewTipsOfChain
    \/ SubmitRebuilt
    \/ Replied
    \/ TipsTaken

SpecRebuild == Init /\ [][NextRebuild]_vars

(***************************************************************************)
(* Properties.                                                             *)
(***************************************************************************)
\* the header hashes from h back along prev_header_hash, h included
RECURSIVE Path(_)
Path(h) == IF h \notin DOMAIN headers THEN {} ELSE {h} \cup Path(headers[h].prev_header_hash)

\* h is reachable from the genesis header
Reachable(h) == GenesisHash \in Path(h)

\* the ancestor of t at height h
AncestorAt(t, h) == CHOOSE x \in Path(t) : headers[x].height = h

\* the headers every tip descends from
CommonAncestors == {x \in DOMAIN headers : \A i \in 1 .. Len(tips) : x \in Path(tips[i])}

\* the deepest common ancestor of the tips
Meet == CHOOSE x \in CommonAncestors :
            \A y \in CommonAncestors : headers[y].height <= headers[x].height

\* the blocks from the genesis block to h, oldest first
RECURSIVE Mainline(_)
Mainline(h) ==
    IF h \notin DOMAIN store THEN <<>>
    ELSE Append(Mainline(store[h].prev_header_hash), store[h])

\* the UTXO set after the blocks bs, applied one after the other to the empty set
RECURSIVE Replay(_)
Replay(bs) ==
    IF bs = <<>> THEN EmptyDict
    ELSE new_lca(Replay(SubSeq(bs, 1, Len(bs) - 1)), bs[Len(bs)])

Returned == last # Idle
Rejections == {"INVALID_BLOCK", "ALREADY_HAVE_BLOCK", "DISCONNECTED_BLOCK"}

\* C1: after any sequence of receive_block calls there are at most
\* NUMBER_OF_HEADS tips, and every tip is reachable from the genesis header
\* along prev_header_hash links through headers.
C1_TipsBoundedReachable ==
    /\ Len(tips) <= constants.NUMBER_OF_HEADS
    /\ \A i \in 1 .. Len(tips) : tips[i] \in DOMAIN headers /\ Reachable(tips[i])

\* a call put a block into a full tip list and the list was cut back
C1_Witness ==
    /\ last.result = "ADDED_TO_HEAD"
    /\ constants.NUMBER_OF_HEADS = NUMBER_OF_HEADS
    /\ Len(last.old_tips) = NUMBER_OF_HEADS
    /\ Len(tips) = NUMBER_OF_HEADS

\* C2: after any sequence of receive_block calls lca_block is the deepest
\* common ancestor of all tips, and for every height h up to the LCA's,
\* height_to_hash[h] is the height-h ancestor of every tip.
C2_LcaIsMeet ==
    /\ lca_block = Meet
    /\ \A h \in 0 .. headers[lca_block].height :
            /\ h \in DOMAIN height_to_hash
            /\ \A i \in 1 .. Len(tips) : height_to_hash[h] = AncestorAt(tips[i], h)

\* the tips lie on different branches that part above the genesis block
C2_Witness ==
    /\ \E i, j \in 1 .. Len(tips) : tips[i] \notin Path(tips[j]) /\ tips[j] \notin Path(tips[i])
    /\ headers[lca_block].height >= 1
    /\ last.result = "ADDED_TO_HEAD"

\* C3: after any sequence of receive_block calls, whichever way they moved the
\* LCA, height_to_hash is defined for exactly the heights 0 .. lca_block.height.
C3_HeightsUpToLca == DOMAIN height_to_hash = 0 .. headers[lca_block].height

\* a call moved the LCA back to a lower height
C3_Witness ==
    /\ last.result = "ADDED_TO_HEAD"
    /\ headers[lca_block].height < headers[last.old_lca].height

C5_CommittedIsReplay == unspent = Replay(Mainline(lca_block))

\* no block of the store spends a coin that an ancestor of it has spent
NoRespendStored == \A h \in DOMAIN store : ~RespendsAncestor(store, store[h])

\* C5 where it holds: as long as no accepted block spends a coin an ancestor of
\* it has spent, the committed state is the replay of the blocks up to the LCA.
C5_ReplayWithoutRespend == NoRespendStored => unspent = Replay(Mainline(lca_block))

\* a call moved the LCA across a fork, off a branch on which a coin was spent
C5_Witness ==
    /\ last.result = "ADDED_TO_HEAD"
    /\ last.old_lca \notin Path(lca_block)
    /\ lca_block \notin Path(last.old_lca)
    /\ \E x \in Path(last.old_lca) \ Path(lca_block) : store[x].removals # <<>>

\* C6: a receive_block call that returns INVALID_BLOCK, ALREADY_HAVE_BLOCK or
\* DISCONNECTED_BLOCK leaves headers, height_to_hash, tips, lca_block, the
\* block store and the unspent store (committed state and overlays) as they were.
C6_RejectionChangesNothing ==
    [][last'.result \in Rejections => UNCHANGED chain]_vars

\* a block with transactions was rejected while the tips were on two branches
C6_Witness ==
    /\ last.result = "INVALID_BLOCK"
    /\ last.tx_err # "NONE"
    /\ \E i, j \in 1 .. Len(tips) : tips[i] \notin Path(tips[j]) /\ tips[j] \notin Path(tips[i])

\* C7: receive_block answers ALREADY_HAVE_BLOCK for a block whose header hash
\* it holds; else DISCONNECTED_BLOCK for a block whose parent it does not
\* hold (a height-0 block included, once there are tips); only a new block
\* with a known parent is validated.
C7_ClassificationOrder ==
    Returned =>
        /\ last.known => last.result = "ALREADY_HAVE_BLOCK"
        /\ ~last.known /\ ~last.connected => last.result = "DISCONNECTED_BLOCK"
        /\ last.result \in {"INVALID_BLOCK", "ADDED_TO_HEAD", "ADDED_AS_ORPHAN", "RAISED"}
                => ~last.known /\ last.connected

\* a new height-0 block with an unknown parent was received
C7_Witness ==
    /\ Returned
    /\ ~last.known /\ ~last.connected /\ last.height = 0

\* blocks 1 .. 10 were accepted on top of the genesis block, on a single chain
LinearChain ==
    /\ last = Idle
    /\ DOMAIN headers = 1 .. 11
    /\ \A h \in 2 .. 11 : headers[h].prev_header_hash = h - 1

\* the coins of the blocks bs, none spent
AllUnspent(bs) ==
    /\ DOMAIN unspent = UNION {{<<"cb", h>>, <<"fee", h>>} : h \in bs}
    /\ \A n \in DOMAIN unspent : unspent[n].spent = 0

\* C8 as stated: after blocks 1 .. 10 on a single chain the only tip is block
\* 10, the LCA is block 10, height_to_hash covers 0 .. 10 and all coinbase
\* coins are in the unspent store, unspent.
C8_AsStated ==
    LinearChain =>
        /\ tips = <<11>>
        /\ lca_block = 11
        /\ DOMAIN height_to_hash = 0 .. 10
        /\ AllUnspent(1 .. 11)

\* C8, amended: that is the outcome when NUMBER_OF_HEADS is 1; when it is 3 the
\* tips are blocks 10, 9 and 8, the LCA is block 8, height_to_hash covers
\* 0 .. 8 and the committed coins are those of blocks 0 .. 8, unspent.
C8_LinearExtension ==
    /\ LinearChain /\ constants.NUMBER_OF_HEADS = 1 =>
            /\ tips = <<11>>
            /\ lca_block = 11
            /\ height_to_hash = [h \in 0 .. 10 |-> h + 1]
            /\ AllUnspent(1 .. 11)
    /\ LinearChain /\ constants.NUMBER_OF_HEADS = 3 =>
            /\ tips = <<11, 10, 9>>
            /\ lca_block = 9
            /\ height_to_hash = [h \in 0 .. 8 |-> h + 1]
            /\ AllUnspent(1 .. 9)

\* blocks 1 .. 10 were accepted on a single chain by a node with three heads
C8_Witness == LinearChain /\ constants.NUMBER_OF_HEADS = 3

\* blocks 1 .. 4 on the genesis block, then a sibling of block 3 (hash 6) and
\* the sibling's child (hash 7), with NUMBER_OF_HEADS = 3
SiblingArm ==
    /\ constants.NUMBER_OF_HEADS = 3
    /\ \A h \in 2 .. 5 : h \in DOMAIN headers /\ headers[h].prev_header_hash = h - 1
    /\ 6 \in DOMAIN headers /\ headers[6].prev_header_hash = 3
    /\ \A h \in DOMAIN headers : h >= 7 => headers[h].prev_header_hash = h - 1

\* the sibling's child at height 4, or the child's child at height 5, has just
\* been received
ArmExtended == SiblingArm /\ last.hash \in {7, 8} /\ DOMAIN headers = 1 .. last.hash

\* C9 as stated: receiving the child of the sibling makes the sibling's arm the
\* mainline at heights 3 and 4.
C9_AsStated ==
    ArmExtended =>
        /\ {3, 4} \subseteq DOMAIN height_to_hash
        /\ height_to_hash[3] = 6
        /\ height_to_hash[4] = 7

\* C9, amended: the child joins the tips behind block 4 of the first arm; the
\* LCA stays at block 2, height_to_hash stays defined for 0 .. 2 with the
\* hashes it had, and the committed UTXO set is left as it was: nothing is
\* rolled back or applied.  The same holds when the arm grows to height 5.
\* The arm is the mainline at heights 3 and 4 only once all three tips are on
\* it, which takes its block at height 7.
C9_OrphanPromotion ==
    /\ ArmExtended =>
            /\ last.result = "ADDED_TO_HEAD"
            /\ tips = (IF last.hash = 7 THEN <<5, 7, 4>> ELSE <<8, 5, 7>>)
            /\ lca_block = 3
            /\ last.old_lca = 3
            /\ height_to_hash = [h \in 0 .. 2 |-> h + 1]
            /\ unspent = last.old_unspent
    /\ SiblingArm /\ 3 \in DOMAIN height_to_hash /\ height_to_hash[3] = 6 =>
            /\ 10 \in DOMAIN headers
            /\ \A i \in 1 .. Len(tips) : 6 \in Path(tips[i])
            /\ height_to_hash[4] = 7

\* the sibling's child at height 4 has just been received
C9_Witness == ArmExtended /\ last.hash = 7

\* C10: a new block on a known parent that spends a coin an ancestor of it
\* (its parent included) has spent, or spends a coin twice, or spends a coin no
\* block created, is answered INVALID_BLOCK and the tips stay as they were.
C10_DoubleSpendRejected ==
    Returned /\ ~last.known /\ last.connected
             /\ (last.respends \/ last.twice \/ last.unknown) =>
        /\ last.result = "INVALID_BLOCK"
        /\ tips = last.old_tips

(***************************************************************************)
(* Retargeting.                                                            *)
(***************************************************************************)
\* the next block after header h is the first of a new difficulty
ChangeHeight(h) ==
    /\ headers[h].height + 1 >= DIFFICULTY_EPOCH
    /\ (headers[h].height + 1) % DIFFICULTY_EPOCH = DIFFICULTY_DELAY

\* get_next_difficulty(h) on the chain as it is
NextDifficulty(h) == get_next_difficulty(headers, height_to_hash, tips, h)

\* T_new of tip h lies within a factor DIFFICULTY_FACTOR of Tc and is at least 1
WithinFactor(Tnew, Tc) ==
    /\ Max2(1, FloorDiv(Tc, DIFFICULTY_FACTOR)) <= Tnew
    /\ Tnew <= Tc * DIFFICULTY_FACTOR
    /\ Tnew >= 1

\* C11: for every tip above the genesis block, the difficulty after the tip and
\* the difficulty after its parent, whenever both are returned, satisfy
\* max(1, floor(Tc / DIFFICULTY_FACTOR)) <= T_new <= Tc * DIFFICULTY_FACTOR and
\* T_new >= 1; with Tc = 5 and DIFFICULTY_FACTOR = 3 a quotient of 20 gives 15
C11_RetargetBound ==
    /\ \A i \in 1 .. Len(tips) :
            headers[tips[i]].height > 0
            /\ ~NextDifficulty(tips[i]).raised
            /\ ~NextDifficulty(headers[tips[i]].prev_header_hash).raised
            => WithinFactor(NextDifficulty(tips[i]).v,
                            NextDifficulty(headers[tips[i]].prev_header_hash).v)
    /\ ClampDifficulty(20, DIFFICULTY_STARTING) = 15

\* a tip at a change height whose new difficulty is held down to
\* DIFFICULTY_FACTOR times the old one
C11_Witness ==
    \E i \in 1 .. Len(tips) :
        /\ ChangeHeight(tips[i])
        /\ ~NextDifficulty(tips[i]).raised
        /\ NextDifficulty(tips[i]).v
                = DIFFICULTY_FACTOR * NextDifficulty(headers[tips[i]].prev_header_hash).v

\* get_next_ips(h) on the chain as it is
NextIps(h) == get_next_ips(headers, height_to_hash, tips, h)

\* C12: at a change height the ips get_next_ips returns for a tip lies in
\* [max(1, floor(prev_ips / IPS_FACTOR)), prev_ips * IPS_FACTOR], prev_ips being
\* the ips in force for the tip itself, i.e. the one returned for its parent
C12_IpsClamp ==
    \A i \in 1 .. Len(tips) :
        ChangeHeight(tips[i])
        /\ ~NextIps(tips[i]).raised
        /\ ~NextIps(headers[tips[i]].prev_header_hash).raised
        => /\ Max2(1, FloorDiv(NextIps(headers[tips[i]].prev_header_hash).v, IPS_FACTOR))
                <= NextIps(tips[i]).v
           /\ NextIps(tips[i]).v
                <= NextIps(headers[tips[i]].prev_header_hash).v * IPS_FACTOR

\* the lower half of the clamp of get_next_ips, which the code keeps
C12_IpsClampBelow ==
    \A i \in 1 .. Len(tips) :
        ChangeHeight(tips[i])
        /\ ~NextIps(tips[i]).raised
        /\ ~NextIps(headers[tips[i]].prev_header_hash).raised
        => Max2(1, FloorDiv(NextIps(headers[tips[i]].prev_header_hash).v, IPS_FACTOR))
                <= NextIps(tips[i]).v

(***************************************************************************)
(* Reorganisations.                                                        *)
(***************************************************************************)
\* the call that has just returned moved the LCA off the chain of the old one
Reorged ==
    /\ last.result = "ADDED_TO_HEAD"
    /\ last.old_lca # lca_block
    /\ last.old_lca \notin Path(lca_block)

\* C13: after a heavier chain B replaces the accepted chain A, the committed UTXO
\* is the replay of the blocks from the genesis block to the new LCA; the
\* committed UTXO is then a function of the LCA alone, so that it is what it was
\* whenever blocks make the LCA what it was
C13_ReorgSymmetry == Reorged => unspent = Replay(Mainline(lca_block))

\* C13 on chains that hold no block spending a coin an ancestor of it spent
C13_ReorgWithoutRespend ==
    Reorged /\ NoRespendStored => unspent = Replay(Mainline(lca_block))

\* a reorganisation on a chain with transactions and no respent coin
C13_ReorgReached ==
    /\ Reorged
    /\ NoRespendStored
    /\ \E h \in Path(lca_block) : store[h].has_tx
    /\ \E h \in DOMAIN store \ Path(lca_block) : store[h].has_tx

(***************************************************************************)
(* Exceptions.                                                             *)
(***************************************************************************)
\* C14: no call of receive_block ends in an exception, and neither does
\* get_next_difficulty or get_next_ips on any tip: every failure is a returned
\* result
C14_ErrorsAreValues ==
    /\ last.result # "RAISED"
    /\ \A i \in 1 .. Len(tips) :
            ~NextDifficulty(tips[i]).raised /\ ~NextIps(tips[i]).raised

\* receive_block never ends in an exception
C14_ReceiveNeverRaises == last.result # "RAISED"

(***************************************************************************)
(* Pre-validation.                                                         *)
(***************************************************************************)
\* the checks of a block that pre_validated = True skips and
\* pre_validate_block_multi does not make
SkippedChecks == {"pos_hash", "body_hash", "coinbase_sig"}

\* C15: a call of receive_block with pre_validated = True and the quality of
\* pre_validate_block_multi returns what the call with pre_validated = False
\* returns
C15_PreValidationTransparent == last.pre_validated => last.result = last.plain

\* the two calls differ only on a block that fails one of the skipped checks,
\* which the call with pre_validated = True accepts
C15_DiffersOnSkippedOnly ==
    last.pre_validated /\ last.result # last.plain
        => /\ last.plain = "INVALID_BLOCK"
           /\ last.hash \in DOMAIN store
           /\ store[last.hash].bad \cap SkippedChecks # {}

\* a pre-validated block was rejected, and one was accepted
C15_Reached ==
    /\ last.pre_validated
    /\ last.result = "INVALID_BLOCK"
    /\ \E h \in DOMAIN store : h # GenesisHash /\ store[h].bad = {}

(***************************************************************************)
(* What a coroutine sees while receive_block is suspended.                 *)
(***************************************************************************)
\* every header was offered to the tips: it is a tip, or no heavier than the
\* lightest tip
TipsReconsidered ==
    \A h \in DOMAIN headers :
        \/ IsTip(tips, h)
        \/ headers[h].weight <= SetMin({headers[tips[i]].weight : i \in 1 .. Len(tips)})

\* the committed UTXO is that of the LCA and of height_to_hash
UnspentAtLca ==
    /\ DOMAIN height_to_hash = 0 .. headers[lca_block].height
    /\ unspent = Replay(Mainline(lca_block))

\* C16: at every point where receive_block is suspended or has returned, the
\* chain a reader sees is complete: no header is in headers without the tips
\* having been reconsidered for it, and the committed UTXO belongs to the
\* lca_block and height_to_hash that are read with it
C16_AtomicAcceptance == TipsReconsidered /\ UnspentAtLca

\* between calls the chain is complete
C16_CompleteBetweenCalls ==
    last.result \notin Suspended \cup {"CANCELLED"} => TipsReconsidered /\ UnspentAtLca

\* C17: a cancelled receive_block leaves headers, height_to_hash, tips,
\* lca_block and the unspent store as they were before the call
C17_CancelLeavesNoTrace ==
    last.result = "CANCELLED" =>
        /\ last.hash \notin DOMAIN headers
        /\ tips = last.old_tips
        /\ lca_block = last.old_lca
        /\ DOMAIN height_to_hash = 0 .. headers[lca_block].height
        /\ unspent = last.old_unspent

(***************************************************************************)
(* The mempool.                                                            *)
(***************************************************************************)
\* the pools that hold the bundle of the call that has just ended
AdmittedPools ==
    {i \in 1 .. Len(mempools) : submitted.bundle.name \in DOMAIN mempools[i].spends}

\* C18: add_spendbundle returns (admitted_in_any_pool, first_error_or_none):
\* the boolean is true iff the bundle was inserted into at least one target
\* pool, and when a target pool rejected the bundle and none admitted it, the
\* second component is the first such error rather than none
C18_ReturnPair ==
    submitted.result = "RETURNED" =>
        /\ submitted.ok = (AdmittedPools # {})
        /\ (submitted.errors # <<>> /\ AdmittedPools = {}) =>
                submitted.err = submitted.errors[1]

\* the boolean alone: true iff some pool holds the bundle
C18_BooleanIsAdmission ==
    submitted.result = "RETURNED" => submitted.ok = (AdmittedPools # {})

\* a bundle one pool admitted and another rejected
C18_AdmittedAndRejected ==
    /\ submitted.result = "RETURNED"
    /\ AdmittedPools # {}
    /\ submitted.errors # <<>>

\* the items of the pool that spend a coin the bundle spends
ConflictsIn(pool, sb) ==
    {pool.removals[c] : c \in SeqRange(sb.removals) \cap DOMAIN pool.removals}

\* the bundle passes the checks add_spendbundle makes before it turns to the pools
PassesBundleChecks(sb) ==
    /\ sb.cost # 0
    /\ sb.npc_err = "NONE"
    /\ \A i \in 1 .. Len(sb.additions) : sb.additions[i].amount < MAX_COIN_AMOUNT
    /\ \A i, j \in 1 .. Len(sb.additions) : i # j => sb.additions[i].name # sb.additions[j].name

\* the pools in which the call that has just ended met a mempool conflict: the
\* bundle passed the checks made before the pools, its signature is good, the
\* pool let it through the fee gate and check_removals found nothing but the
\* conflict
Conflicted ==
    {i \in 1 .. Len(submitted.before) :
        /\ submitted.result # "NONE"
        /\ PassesBundleChecks(submitted.bundle)
        /\ submitted.bundle.sig_ok
        /\ submitted.bundle.fees > 0
        /\ fees_per_cost(submitted.bundle.fees, submitted.bundle.cost)
                >= get_min_fee_rate(submitted.before[i])
        /\ check_removals(unspent, head_diffs, submitted.bundle, submitted.before[i]).err
                = "MEMPOOL_CONFLICT"}

\* the bundle pays strictly more per cost than every item it conflicts with
PaysMore(pool, sb) ==
    \A item \in ConflictsIn(pool, sb) : fees_per_cost(sb.fees, sb.cost) > item.fee_per_cost

\* the bundle is parked in potential_txs
IsParked(sb) == \E k \in 1 .. Len(potential_txs) : potential_txs[k].name = sb.name

\* C19: a bundle that spends a coin already spent by items of a pool is
\* admitted to that pool only if its fee_per_cost is strictly greater than that
\* of every conflicting item, and on admission all conflicting items are
\* removed from the pool; otherwise (equal fee_per_cost included) the pool is
\* left unchanged, the bundle is rejected with MEMPOOL_CONFLICT and parked in
\* potential_txs
C19_ConflictReplacement ==
    \A i \in Conflicted :
        IF i \in AdmittedPools
        THEN /\ PaysMore(submitted.before[i], submitted.bundle)
             /\ \A item \in ConflictsIn(submitted.before[i], submitted.bundle) :
                    item.name \notin DOMAIN mempools[i].spends
        ELSE /\ mempools[i] = submitted.before[i]
             /\ \E k \in 1 .. Len(submitted.errors) : submitted.errors[k] = "MEMPOOL_CONFLICT"
             /\ IsParked(submitted.bundle)

\* the half the code keeps: a bundle that does not pay more than every
\* conflicting item leaves the pool as it was and is parked
C19_NotMoreIsParked ==
    \A i \in Conflicted :
        ~PaysMore(submitted.before[i], submitted.bundle) =>
            /\ mempools[i] = submitted.before[i]
            /\ i \notin AdmittedPools
            /\ IsParked(submitted.bundle)

\* a bundle that pays more than the item it conflicts with was submitted
C19_PaysMoreReached ==
    \E i \in Conflicted : PaysMore(submitted.before[i], submitted.bundle)

\* a bundle that pays the same as the item it conflicts with was submitted
C19_EqualFeeReached ==
    \E i \in Conflicted :
        \E item \in ConflictsIn(submitted.before[i], submitted.bundle) :
            item.fee_per_cost = fees_per_cost(submitted.bundle.fees, submitted.bundle.cost)

\* the pools that were at full capacity when the call that has just ended
\* began, and held no item in conflict with its bundle
FullBefore ==
    {i \in 1 .. Len(submitted.before) :
        /\ submitted.result # "NONE"
        /\ at_full_capacity(submitted.before[i])
        /\ ConflictsIn(submitted.before[i], submitted.bundle) = {}}

\* the lowest fee_per_cost among the items of a pool that holds some
MinFee(pool) == SetMin({pool.spends[n].fee_per_cost : n \in DOMAIN pool.spends})

\* the items the call took out of the pool of index i
Evicted(i) == DOMAIN submitted.before[i].spends \ DOMAIN mempools[i].spends

\* the minimum fee_per_cost of the pool of index i is not lower than before the
\* call, and an item left the pool only if the bundle was admitted with a
\* fee_per_cost at or above the minimum the pool had
Monotonic(i) ==
    /\ DOMAIN mempools[i].spends # {} => MinFee(mempools[i]) >= MinFee(submitted.before[i])
    /\ Evicted(i) # {} =>
            /\ i \in AdmittedPools
            /\ fees_per_cost(submitted.bundle.fees, submitted.bundle.cost)
                    >= MinFee(submitted.before[i])

C20_FullPoolKeepsItems ==
    \A i \in FullBefore : Monotonic(i) /\ Evicted(i) = {}

\* a bundle that a full pool lets through its fee gate was submitted
C20_FullPoolReached ==
    \E i \in FullBefore :
        /\ PassesBundleChecks(submitted.bundle)
        /\ submitted.bundle.fees > 0
        /\ fees_per_cost(submitted.bundle.fees, submitted.bundle.cost)
                >= get_min_fee_rate(submitted.before[i])
        /\ check_removals(unspent, head_diffs, submitted.bundle, submitted.before[i]).err = "NONE"

\* the full pools whose every check the bundle of the call passes: the fee
\* gate, check_removals without a conflict, the signature
LetThrough ==
    {i \in FullBefore :
        /\ PassesBundleChecks(submitted.bundle)
        /\ submitted.bundle.sig_ok
        /\ submitted.bundle.fees > 0
        /\ fees_per_cost(submitted.bundle.fees, submitted.bundle.cost)
                >= get_min_fee_rate(submitted.before[i])
        /\ check_removals(unspent, head_diffs, submitted.bundle, submitted.before[i]).err = "NONE"}

\* the item of the lowest fee_per_cost in the pool, the oldest-inserted among
\* ties (names are handed out in order of arrival)
LowestItem(pool) ==
    CHOOSE n \in DOMAIN pool.spends :
        \A m \in DOMAIN pool.spends :
            \/ pool.spends[n].fee_per_cost < pool.spends[m].fee_per_cost
            \/ pool.spends[n].fee_per_cost = pool.spends[m].fee_per_cost /\ n <= m

\* no pool holds more items than its size
SizeKept == \A i \in 1 .. Len(mempools) : Cardinality(DOMAIN mempools[i].spends) <= mempools[i].size

\* C21: capacity eviction: the number of items in a pool never exceeds its
\* size, and an item admitted to a pool already at capacity takes the place of
\* exactly one item, one of the lowest fee_per_cost in the pool (the
\* oldest-inserted among ties)
C21_CapacityEviction ==
    /\ SizeKept
    /\ \A i \in LetThrough :
            /\ i \in AdmittedPools
            /\ Evicted(i) = {LowestItem(submitted.before[i])}

\* the half the code keeps: the size bound
C21_SizeBound == SizeKept

\* a pool at capacity
C21_FullReached == \E i \in 1 .. Len(mempools) : at_full_capacity(mempools[i])

\* the coins spent by the blocks on the path from the genesis block to h
SpentOnPath(h) == UNION {SeqRange(store[x].removals) : x \in AncestorsOrSelf(store, h)}

\* the items of the pool that spend a coin confirmed as spent on the path to
\* the pool's header_block
Stale(pool) ==
    {n \in DOMAIN pool.spends :
        SeqRange(pool.spends[n].spend_bundle.removals) \cap SpentOnPath(pool.header_block) # {}}

\* C22 (P5): after any sequence of add_spendbundle and new_tips calls, no item
\* held in a pool spends a coin that a block on the path from the genesis block
\* to the pool's header_block has spent
C22_NoConfirmedConflict == \A i \in 1 .. Len(mempools) : Stale(mempools[i]) = {}

\* new_tips met a block that spends what an item of the parent's pool spends
C22_CollisionReached ==
    /\ tipped.result # "NONE"
    /\ \E i \in 1 .. Len(tipped.before), j \in 1 .. Len(tipped.tips) :
            /\ tipped.before[i].key = store[tipped.tips[j]].prev_header_hash
            /\ FirstColliding(tipped.before[i], store[tipped.tips[j]]) # <<>>

\* the items of a pool: the names add_to_pool has stored in it
ItemsOf(pool) == DOMAIN pool.spends

\* the summed cost of the selected items of a pool
RECURSIVE CostSum(_, _)
CostSum(pool, names) ==
    IF names = {} THEN 0
    ELSE LET n == CHOOSE x \in names : TRUE
         IN  pool.spends[n].cost + CostSum(pool, names \ {n})

\* the selection is a greedy prefix of the descending fee_per_cost order, within
\* the cost a block may have
GreedyPrefix(pool, chosen) ==
    /\ chosen \subseteq ItemsOf(pool)
    /\ CostSum(pool, chosen) <= BLOCK_COST_MAX
    /\ \A c \in chosen : \A u \in ItemsOf(pool) \ chosen :
           pool.spends[u].fee_per_cost <= pool.spends[c].fee_per_cost
    /\ \A u \in ItemsOf(pool) \ chosen :
           (\A v \in ItemsOf(pool) \ chosen :
                pool.spends[v].fee_per_cost <= pool.spends[u].fee_per_cost)
           => CostSum(pool, chosen) + pool.spends[u].cost > BLOCK_COST_MAX

\* C23: create_bundle_for_tip(tip) returns none when the tip has no pool, and
\* otherwise returns the items of the tip's pool packed in descending
\* fee_per_cost order up to BLOCK_COST_MAX: a prefix of that order, of cost at
\* most BLOCK_COST_MAX, leaving out no item that pays more than one it took
C23_GreedySelection ==
    bundled # NoBundle =>
        /\ bundled.result = "RETURNED"
        /\ bundled.none = (~\E j \in 1 .. Len(mempools) : mempools[j].key = bundled.tip)
        /\ ~bundled.none =>
               GreedyPrefix(PoolAt(mempools, bundled.tip), SeqRange(bundled.selected))

\* C23: the call on a header without a pool returns none
C23_NoPoolIsNone ==
    (bundled # NoBundle /\ ~\E j \in 1 .. Len(mempools) : mempools[j].key = bundled.tip)
        => bundled.result = "RETURNED" /\ bundled.none

\* C23: create_bundle_for_tip has been called on a tip whose pool holds an item
C23_PoolWithItemsReached ==
    /\ bundled # NoBundle
    /\ \E j \in 1 .. Len(mempools) :
           mempools[j].key = bundled.tip /\ DOMAIN mempools[j].sorted_spends # {}

\* the call parked its bundle, which was not parked before, in a full retry cache
ParkedInFull ==
    /\ submitted # NoCall
    /\ Len(submitted.parked) = potential_cache_size
    /\ ~\E k \in 1 .. Len(submitted.parked) : submitted.parked[k].name = submitted.bundle.name
    /\ IsParked(submitted.bundle)

\* C24: potential_txs never holds more than potential_cache_size bundles, and a
\* bundle parked in a full cache takes the place of the oldest one: the cache
\* is then the earlier one without its first entry, followed by the new bundle
C24_PotentialCacheBound ==
    /\ Len(potential_txs) <= potential_cache_size
    /\ ParkedInFull =>
           /\ submitted.result = "RETURNED"
           /\ potential_txs = Append(Tail(submitted.parked), submitted.bundle)

\* C24: a bundle has been parked in a cache that was full
C24_ParkedInFullReached == ParkedInFull

\* C25: the old-mempool cache never holds entries for more than
\* OLD_MEMPOOL_SIZE heights: stashing for one more height discards the lowest
C25_OldMempoolHeights == Cardinality(DOMAIN old_mempools) <= OLD_MEMPOOL_SIZE

\* C25: new_tips has stashed for a height while the cache held OLD_MEMPOOL_SIZE
\* heights, all of them lower
C25_NewHeightReached ==
    /\ tipped # NoTips
    /\ \E h \in DOMAIN old_mempools :
           /\ Cardinality(DOMAIN old_mempools \ {h}) >= OLD_MEMPOOL_SIZE
           /\ \A g \in DOMAIN old_mempools : g <= h

\* the pool the mempool held under the key k before the new_tips call
PoolBefore(k) == PoolAt(tipped.before, k)

\* the tips of the call that were tips, with a pool, before it as well
KeptTips ==
    {h \in SeqRange(tipped.tips) : \E j \in 1 .. Len(tipped.before) : tipped.before[j].key = h}

\* C26: after new_tips(T) has returned the mempool has one pool per tip of T,
\* the pool under the key h has the header block h, no two keys hold the same
\* pool object, and the pool of a tip that stays a tip is left as it was
C26_OnePoolPerTip ==
    tipped.result = "RETURNED" =>
        /\ {mempools[j].key : j \in 1 .. Len(mempools)} = SeqRange(tipped.tips)
        /\ \A i, j \in 1 .. Len(mempools) : mempools[i].key = mempools[j].key => i = j
        /\ \A j \in 1 .. Len(mempools) : mempools[j].header_block = mempools[j].key
        /\ \A i, j \in 1 .. Len(mempools) : mempools[i].id = mempools[j].id => i = j
        /\ \A h \in KeptTips : PoolAt(mempools, h) = PoolBefore(h)

\* C26: new_tips has returned for tips one of which is the child of another
\* that already had a pool
C26_ParentStillTipReached ==
    /\ tipped.result = "RETURNED"
    /\ \E h \in SeqRange(tipped.tips) :
           /\ h \notin KeptTips
           /\ headers[h].prev_header_hash \in KeptTips

\* the coins the blocks on the path from the genesis block to h have created
CoinsOnPath(h) ==
    UNION {{store[x].coinbase.name, store[x].fees_coin.name} \cup AdditionNames(store[x]) :
             x \in AncestorsOrSelf(store, h)}

\* the tips of the call that new_tips builds a new pool for: neither the tip nor
\* its parent had a pool
RebuiltTips ==
    {h \in SeqRange(tipped.tips) :
        \A j \in 1 .. Len(tipped.before) :
            tipped.before[j].key \notin {h, store[h].prev_header_hash}}

\* the items of the pools the call replaced and of the old-mempool cache
ReplacedItems ==
    UNION {{tipped.before[j].spends[n] : n \in DOMAIN tipped.before[j].spends} :
             j \in 1 .. Len(tipped.before)}
    \cup UNION {SeqRange(old_mempools[g]) : g \in DOMAIN old_mempools}

\* the item is still valid at the tip h: its inputs exist and are unspent there,
\* and no other replaced item that pays as much spends one of them
StillValid(item, h) ==
    /\ SeqRange(item.spend_bundle.removals) \subseteq CoinsOnPath(h) \ SpentOnPath(h)
    /\ \A c \in ReplacedItems \ {item} :
           c.fee_per_cost >= item.fee_per_cost
               => SeqRange(c.spend_bundle.removals)
                      \cap SeqRange(item.spend_bundle.removals) = {}

FullOfBetter(pool, item) ==
    /\ at_full_capacity(pool)
    /\ \A n \in DOMAIN pool.spends : pool.spends[n].fee_per_cost > item.fee_per_cost

BeforeFreeze ==
    {"UNKNOWN", "BLOCK_COST_EXCEEDS_MAX", "NPC_ERROR", "EXTENDS_UNKNOWN_BLOCK",
     "COIN_AMOUNT_EXCEEDS_MAXIMUM", "DUPLICATE_OUTPUT", "DOUBLE_SPEND", "UNKNOWN_UNSPENT"}

\* C28: a new block at height h that spends a coinbase coin confirmed at index c
\* is rejected with COINBASE_NOT_YET_SPENDABLE, hence INVALID_BLOCK, exactly
\* when h < c + COINBASE_FREEZE_PERIOD (unless an earlier check has rejected it
\* already); at h = c + COINBASE_FREEZE_PERIOD the freeze check passes
C28_CoinbaseFreeze ==
    Returned /\ ~last.known /\ last.connected /\ last.result # "RAISED" =>
        /\ last.tx_err = "COINBASE_NOT_YET_SPENDABLE" => last.frozen
        /\ last.frozen =>
               /\ last.result = "INVALID_BLOCK"
               /\ last.tx_err \in BeforeFreeze \cup {"COINBASE_NOT_YET_SPENDABLE", "NONE"}
        /\ last.frozen /\ last.tx_err \notin BeforeFreeze \cup {"NONE"} =>
               last.tx_err = "COINBASE_NOT_YET_SPENDABLE"
        /\ last.thawed => last.tx_err # "COINBASE_NOT_YET_SPENDABLE"

\* C28: a block was rejected for spending a coinbase coin younger than
\* COINBASE_FREEZE_PERIOD
C28_FrozenRejected ==
    /\ last.frozen
    /\ last.tx_err = "COINBASE_NOT_YET_SPENDABLE"
    /\ last.result = "INVALID_BLOCK"

\* C28: a block that spends a coinbase coin of age COINBASE_FREEZE_PERIOD was
\* accepted
C28_ThawedAccepted ==
    /\ last.thawed
    /\ last.tx_err = "NONE"
    /\ last.result \in {"ADDED_TO_HEAD", "ADDED_AS_ORPHAN"}

\* the unspent store holds, under the name of the coin, a record of that coin
Recorded(coin) ==
    /\ get_unspent(unspent, head_diffs, coin.name, NoHash) # <<>>
    /\ get_unspent(unspent, head_diffs, coin.name, NoHash)[1].coin = coin

\* C29: after new_lca was applied to each block of a chain in order, get_unspent
\* returns for every applied block a record of its coinbase coin and a record of
\* its fees coin: later new_lca calls remove none
C29_AppliedCoinsRecorded ==
    \A x \in AncestorsOrSelf(store, lca_block) :
        Recorded(store[x].coinbase) /\ Recorded(store[x].fees_coin)

\* C29: new_lca has been applied to three blocks of a chain, one after the other
C29_ThreeApplied ==
    /\ last.result = "ADDED_TO_HEAD"
    /\ headers[lca_block].height >= 2
    /\ Cardinality(DOMAIN unspent) >= 6

\* there are no tips, or block h weighs more than the lightest of the tips ts
Outweighs(hdrs, ts, h) ==
    ts = <<>> \/ \E i \in 1 .. Len(ts) : hdrs[h].weight > hdrs[ts[i]].weight

\* the dict after is the dict before with the one key h more
Gained(before, after, h) ==
    /\ h \notin DOMAIN before
    /\ DOMAIN after = DOMAIN before \cup {h}
    /\ \A x \in DOMAIN before : after[x] = before[x]

\* C30: a validated block b enters tips iff tips is empty or weight(b) is greater
\* than the least tip weight, also when there are fewer than NUMBER_OF_HEADS
\* tips; receive_block returns ADDED_TO_HEAD exactly then, with b among the tips
\* left after trimming, and ADDED_AS_ORPHAN otherwise, leaving tips, lca_block,
\* height_to_hash and the unspent store as they were, headers and the block
\* store having gained b and nothing else
C30_TipsEntry ==
    [][last = Idle /\ last'.result \in {"ADDED_TO_HEAD", "ADDED_AS_ORPHAN"} =>
        /\ (last'.result = "ADDED_TO_HEAD") = Outweighs(headers', tips, last'.hash)
        /\ (last'.hash \in SeqRange(tips')) = Outweighs(headers', tips, last'.hash)
        /\ Len(tips') <= constants.NUMBER_OF_HEADS
        /\ Gained(headers, headers', last'.hash)
        /\ Gained(store, store', last'.hash)
        /\ last'.result = "ADDED_AS_ORPHAN" =>
               UNCHANGED <<tips, lca_block, height_to_hash, unspent, head_diffs>>]_vars

\* C30: a validated block that weighs as much as the lightest tip was answered
\* ADDED_AS_ORPHAN
C30_TieIsOrphan ==
    /\ last.result = "ADDED_AS_ORPHAN"
    /\ last.hash \notin SeqRange(tips)
    /\ \E i \in 1 .. Len(tips) : headers[tips[i]].weight = headers[last.hash].weight

\* C30: a validated block entered fewer than NUMBER_OF_HEADS tips, none trimmed
C30_EnteredWithRoom ==
    /\ last.result = "ADDED_TO_HEAD"
    /\ Len(last.old_tips) < constants.NUMBER_OF_HEADS
    /\ tips = Append(last.old_tips, last.hash)

\* the tips the call had to choose from: the tips before it and the new block
Contenders == SeqRange(last.old_tips) \cup {last.hash}

\* the tips the call has dropped
Dropped == Contenders \ SeqRange(tips)

\* C31: when adding a block makes more than NUMBER_OF_HEADS tips, the tip
\* dropped has the least weight among the tips, and of several tips of that
\* weight the one with the smallest header_hash is dropped
C31_DropsLightestSmallestHash ==
    last.result = "ADDED_TO_HEAD" =>
        \A d \in Dropped : \A t \in Contenders :
            /\ headers[d].weight <= headers[t].weight
            /\ headers[d].weight = headers[t].weight => d <= t

\* C31: the tip dropped is one of the lightest
C31_DropsLightest ==
    last.result = "ADDED_TO_HEAD" =>
        \A d \in Dropped : \A t \in Contenders : headers[d].weight <= headers[t].weight

\* C31: a tip was dropped while another tip had its weight
C31_TieDropped ==
    /\ last.result = "ADDED_TO_HEAD"
    /\ \E d \in Dropped : \E t \in SeqRange(tips) : headers[d].weight = headers[t].weight

\* the difficulty block h was made with: its weight less its parent's
BlockDifficulty(h) == headers[h].weight - headers[headers[h].prev_header_hash].weight

\* the blocks above the genesis block
Extending == {h \in DOMAIN headers : headers[h].prev_header_hash \in DOMAIN headers}

\* C32: the difficulty is constant between change points. For every accepted
\* block b, next_difficulty(b) is DIFFICULTY_STARTING when b.height + 1 is below
\* DIFFICULTY_EPOCH; at any other height that is not a change point it is
\* weight(b) - weight(prev(b)), which is next_difficulty(prev(b)); so a block's
\* difficulty differs from its parent's at change heights only
C32_ConstantBetweenChanges ==
    /\ \A h \in DOMAIN headers :
           headers[h].height + 1 < DIFFICULTY_EPOCH
               => NextDifficulty(h) = Ret(DIFFICULTY_STARTING)
    /\ \A h \in Extending :
           headers[h].height + 1 >= DIFFICULTY_EPOCH /\ ~ChangeHeight(h)
               => /\ NextDifficulty(h) = Ret(BlockDifficulty(h))
                  /\ NextDifficulty(headers[h].prev_header_hash) = Ret(BlockDifficulty(h))
    /\ \A h \in Extending :
           headers[h].prev_header_hash \in Extending
           /\ ~ChangeHeight(headers[h].prev_header_hash)
               => BlockDifficulty(h) = BlockDifficulty(headers[h].prev_header_hash)

\* C32: a chain has passed a change point at which the difficulty changed, and
\* has grown two blocks beyond it
C32_ChangedThenHeld ==
    \E h \in Extending :
        /\ headers[h].prev_header_hash \in Extending
        /\ headers[headers[h].prev_header_hash].prev_header_hash \in Extending
        /\ BlockDifficulty(headers[h].prev_header_hash)
              # BlockDifficulty(headers[headers[h].prev_header_hash].prev_header_hash)
        /\ BlockDifficulty(h) = BlockDifficulty(headers[h].prev_header_hash)

\* the blocks that are ancestors, or the block itself, of both a and b
SharedAncestors(a, b) == AncestorsOrSelf(store, a) \cap AncestorsOrSelf(store, b)

\* the height of meet(a, b): the highest common ancestor
MeetHeight(a, b) == SetMax({headers[x].height : x \in SharedAncestors(a, b)})

\* meet(a, b)
MeetOf(a, b) == CHOOSE x \in SharedAncestors(a, b) : headers[x].height = MeetHeight(a, b)

\* the call has moved the LCA
LcaChanged == last.result = "ADDED_TO_HEAD" /\ lca_block # last.old_lca

\* _reconsider_lca took one of its two branches that call find_fork_for_lca
ForkBranch ==
    /\ LcaChanged
    /\ IF headers[lca_block].height < headers[last.old_lca].height
       THEN ~is_descendant(headers, last.old_lca, lca_block)
       ELSE /\ headers[lca_block].prev_header_hash # last.old_lca
            /\ ~is_descendant(headers, lca_block, last.old_lca)

\* C33: on the height_to_hash rewritten for the new LCA, find_fork_for_lca(old
\* LCA) is the height of meet(old LCA, new LCA), the deepest height at which
\* height_to_hash holds an ancestor-or-self of the old LCA; where _reconsider_lca
\* calls it, the unspent store is rolled back to that height and the blocks from
\* the meet to the new LCA are applied
C33_ForkIsMeet ==
    /\ LcaChanged =>
           find_fork_for_lca(headers, height_to_hash, last.old_lca)
               = MeetHeight(last.old_lca, lca_block)
    /\ ForkBranch =>
           unspent = from_fork_to_lca(store,
                         rollback_lca_to_block(last.old_unspent,
                                               MeetHeight(last.old_lca, lca_block)),
                         MeetOf(last.old_lca, lca_block), lca_block)

\* C33: the LCA has moved to a block that is neither an ancestor nor a
\* descendant of the old LCA
C33_ForkedLcaReached ==
    /\ ForkBranch
    /\ MeetOf(last.old_lca, lca_block) \notin {last.old_lca, lca_block}

\* C34: _reconsider_lca is idempotent: run again on the tips as they are, it
\* leaves lca_block, height_to_hash, the committed unspent store and the diffs
\* of the tips as the first run left them
C34_ReconsiderIdempotent ==
    reconsider_lca(headers, height_to_hash, store, unspent, tips, lca_block, FALSE)
        = [h2h |-> height_to_hash, lca |-> lca_block, unspent |-> unspent,
           diffs |-> head_diffs]

\* C34: _reconsider_lca has moved the LCA while two tips stood above it
C34_MovedWithDiffs ==
    /\ last.result = "ADDED_TO_HEAD"
    /\ lca_block # last.old_lca
    /\ lca_block \notin SeqRange(tips)
    /\ Len(tips) >= 2

\* the heights of the tips added up: each iteration of the loop lowers one
\* cursor by one height
TipHeights == SeqSum([i \in 1 .. Len(tips) |-> headers[tips[i]].height])

\* C35: from the tips of every reachable state the loop of _reconsider_lca
\* reaches cursors of one header hash within as many iterations as the tips
\* have heights, and never steps to a parent that headers does not hold
C35_LcaWalkTerminates == CursorWalk(headers, tips, TipHeights) = "MET"

\* C35: three tips on different branches, one of them two blocks above the
\* block where they meet
C35_UnevenTipsReached ==
    /\ Len(tips) = 3
    /\ LcaWalk(headers, tips) \notin SeqRange(tips)
    /\ \E i \in 1 .. 3 : headers[tips[i]].height >= headers[LcaWalk(headers, tips)].height + 2

\* the names a spend bundle can have
BundleNames == 1 .. MaxBundles + 1

\* C36: seen(h) returns True if add_spendbundle was called with a bundle named
\* h, admitted or not, and returns False for every other hash
C36_SeenIffSubmitted ==
    \A h \in BundleNames :
        seen(allSeen, h) = IF h \in DOMAIN allSeen THEN "True" ELSE "False"

\* C36: seen(h) returns True for the name of every bundle submitted, also of
\* one that was rejected
C36_SeenAfterSubmit == \A h \in DOMAIN allSeen : seen(allSeen, h) = "True"

\* C36: a bundle was submitted and rejected, another name was never submitted
C36_RejectedAndUnseenReached ==
    /\ submitted # NoCall
    /\ submitted.result = "RETURNED"
    /\ ~submitted.ok
    /\ BundleNames \ DOMAIN allSeen # {}

\* C37: the heaviest header is a tip: the largest weight among the tips is the
\* largest weight among all headers
C37_HeaviestIsTip ==
    SetMax({headers[tips[i]].weight : i \in 1 .. Len(tips)})
        = SetMax({headers[h].weight : h \in DOMAIN headers})

\* C37: a block as heavy as the heaviest tip was kept out of the full tips as
\* an orphan
C37_HeavyOrphanReached ==
    /\ last.result = "ADDED_AS_ORPHAN"
    /\ Len(tips) = 3
    /\ headers[last.hash].weight = SetMax({headers[h].weight : h \in DOMAIN headers})

\* C38: no header hash stands twice in tips, also when two calls of
\* receive_block for one block are interleaved
C38_TipsDistinct ==
    \A i, j \in 1 .. Len(tips) : tips[i] = tips[j] => i = j

\* the indexes of the pool agree with its spends
PoolConsistent(pool) ==
    /\ \A n \in DOMAIN pool.spends :
          LET item == pool.spends[n]
          IN /\ item.fee_per_cost \in DOMAIN pool.sorted_spends
             /\ pool.sorted_spends[item.fee_per_cost] = item
             /\ \A r \in SeqRange(item.spend_bundle.removals) :
                    r \in DOMAIN pool.removals /\ pool.removals[r] = item
             /\ \A a \in AdditionNames(item.spend_bundle) :
                    a \in DOMAIN pool.additions /\ pool.additions[a] = item
    /\ \A f \in DOMAIN pool.sorted_spends :
          \E n \in DOMAIN pool.spends : pool.spends[n] = pool.sorted_spends[f]
    /\ \A r \in DOMAIN pool.removals :
          \E n \in DOMAIN pool.spends : pool.spends[n] = pool.removals[r]
    /\ \A a \in DOMAIN pool.additions :
          \E n \in DOMAIN pool.spends : pool.spends[n] = pool.additions[a]

\* C39: after any calls of add_to_pool and remove_spend every item of spends
\* is found in sorted_spends under its fee_per_cost, in removals under each
\* coin it spends and in additions under each coin it creates, and the three
\* indexes hold no item that spends does not hold
C39_PoolIndexes == \A j \in 1 .. Len(mempools) : PoolConsistent(mempools[j])

\* C40: is_descendant(child, maybe_parent) is true if maybe_parent is child or
\* an ancestor of child at any depth, and false otherwise
C40_IsDescendant ==
    \A child, maybe_parent \in DOMAIN headers :
        is_descendant(headers, child, maybe_parent) <=> maybe_parent \in Path(child)

\* C40: is_descendant answers true for no header off the child's ancestor line
C40_TrueOnlyOnLine ==
    \A child, maybe_parent \in DOMAIN headers :
        is_descendant(headers, child, maybe_parent) => maybe_parent \in Path(child)

\* C40: the LCA has moved up its own line by two blocks or more, and
\* is_descendant(new LCA, old LCA) is false: _reconsider_lca goes the way of a
\* fork
C40_LinearTakenForFork ==
    /\ last.result = "ADDED_TO_HEAD"
    /\ last.old_lca \in Path(lca_block)
    /\ headers[lca_block].height >= headers[last.old_lca].height + 2
    /\ ~is_descendant(headers, lca_block, last.old_lca)
====
